---- MODULE Spec2Model ----
(***************************************************************************)
(* LoopCraft audio looper: the layer compositor, the undo/redo history,    *)
(* the recorder callbacks and the analysis dispatcher of AudioLooperApp    *)
(* (src/unnamed/part_001), with the worker of src/js/analyzer-worker.js.   *)
(*                                                                         *)
(* An AudioBuffer is the sequence of its channels, each a sequence of      *)
(* samples; a sample is the integer n of the float n * 2^-24 (One is 1.0), *)
(* the grid on which every float32 below 1 in magnitude lies, and the      *)
(* buffers and slider volumes (integer percentages) used are those whose   *)
(* products are on that grid.  null is <<>>.                               *)
(***************************************************************************)
EXTENDS Integers, Sequences, FiniteSets, TLC

VARIABLES
    layers,             \* this.layers
    layerVolumes,       \* this.layerVolumes, in percent; Hole where the array has a hole
    layerMuted,         \* this.layerMuted
    loopAudioBuffer,    \* this.loopAudioBuffer (Null or the cached composite)
    undoStack,          \* this.undoStack
    redoStack,          \* this.redoStack
    isRecording,        \* this.isRecording
    stream,             \* recorder.stream has been acquired
    mediaRecorder,      \* kind of recorder.mediaRecorder while it records, else "none"
    stopped,            \* recorders that were stopped and whose onComplete is pending
    awaiting,           \* callbacks suspended at `await this.loadAudioToWaveform(..)`
    undoBtnDisabled,    \* elements.undoBtn.disabled
    overdubBtnDisabled, \* elements.overdubBtn.disabled
    clearBtnDisabled,   \* elements.clearBtn.disabled
    renderedLayers,     \* number of slider/mute rows shown in elements.layersList
    statusText,         \* elements.statusText.textContent
    recordingTimer,     \* recorder.recordingTimer: "none", or the duration kind it counts
    orphanTimer,        \* an interval whose handle was overwritten is still running
    analysisWorker,     \* this.analysisWorker is not null
    workerQueue,        \* messages posted to the worker, not yet handled
    mainQueue,          \* messages posted by the worker, not yet handled
    timers,             \* pending setTimeout callbacks of the fallback path
    tempoValue,         \* elements.tempoValue.textContent
    keyValue,           \* elements.keyValue.textContent
    detectedChords,     \* this.detectedChords holds a chord timeline (is not [])
    detectChordsBtnShown,    \* elements.detectChordsBtn.style.display is not 'none'
    detectChordsBtnDisabled, \* elements.detectChordsBtn.disabled
    unhandled,          \* the places that threw an exception nothing caught
    edits,              \* number of slider and mute inputs made so far
    input,              \* the argument an analysis function is applied to
    output,             \* what the analysis function returned for it
    workerData,         \* what each request in workerQueue carries
    timerData,          \* what the callback of each timer in timers holds
    analysed,           \* the samples the last analysis ran on
    heap,               \* the arrays behind layers, volumes, mute flags and snapshots
    player,             \* the fields of an AudioPlayer
    browser,            \* its source nodes, the animation frame it has requested and
                        \* the end callback called last
    audioContext,       \* sampleRate of the application's audioContext, or Null
    metronomeIsPlaying,
    compositeRate       \* sampleRate of loopAudioBuffer, or Null

compVars == <<layers, layerVolumes, layerMuted, loopAudioBuffer, undoStack, redoStack>>
recVars  == <<isRecording, stream, mediaRecorder, stopped, awaiting, recordingTimer,
              orphanTimer>>
uiVars   == <<undoBtnDisabled, overdubBtnDisabled, clearBtnDisabled, renderedLayers,
              statusText>>
anaVars  == <<analysisWorker, workerQueue, mainQueue, timers, tempoValue, keyValue, detectedChords,
              detectChordsBtnShown, detectChordsBtnDisabled, unhandled>>
fnVars   == <<input, output>>
reqVars  == <<workerData, timerData, analysed>>
audioVars == <<player, browser, audioContext, metronomeIsPlaying, compositeRate>>
auxVars  == <<edits, fnVars, reqVars, heap, audioVars>>
vars     == <<compVars, recVars, uiVars, anaVars, edits, fnVars, reqVars, heap, audioVars>>

----------------------------------------------------------------------------
(* Bounds of the model *)

MaxLayers == 3      \* an overdub is started only while fewer layers exist
MaxEdits == 1       \* slider and mute inputs per behaviour
MaxDeepLayers == 12 \* the same, where the history is driven past its depth
MaxInFlight == 3    \* analysis requests and responses in flight at the same time
MaxSnapLayers == 3  \* layers where the arrays behind the snapshots are followed
MaxPlays == 3       \* calls of AudioPlayer.play
MaxContextLayers == 3   \* layers where the audio context is followed

(* Program constants *)

MaxHistory == 10    \* depth of undoStack and redoStack

\* names for the arrays the application and its snapshots can hold at once
Refs == 1..(3 * (2 * MaxSnapLayers + 1))

----------------------------------------------------------------------------
(* Values *)

Null == <<>>
Hole == -1                      \* an array hole / undefined volume
NaN  == 1000000                 \* the float NaN, absorbing under + and *

B1 == << <<100, -200>> >>               \* mono, 2 frames
B2 == << <<200>>, <<-100>> >>           \* stereo, 1 frame
Buffers == {B1, B2}             \* what a recording or a decoded file can be
Volumes == {50}                 \* the slider position the user moves a slider to

Min(a, b) == IF a < b THEN a ELSE b
Max(a, b) == IF a > b THEN a ELSE b

numberOfChannels(b) == Len(b)
length(b) == Len(b[1])

Last(s) == s[Len(s)]
Front(s) == SubSeq(s, 1, Len(s) - 1)

----------------------------------------------------------------------------
(* mixLayers *)

\* channelData[i] * volume, in float arithmetic
Scale(s, v) == IF v = Hole \/ s = NaN THEN NaN ELSE (s * v) \div 100

One == 2^24     \* the sample 1.0

\* the spacing of the float32 values around a magnitude m: 24 significant bits
RECURSIVE Ulp(_)
Ulp(m) == IF m < One THEN 1 ELSE 2 * Ulp(m \div 2)

\* the float32 a number is stored as in a Float32Array: the nearest one, the one
\* with the even significand when two are as near
Fround(n) ==
    LET m == IF n < 0 THEN -n ELSE n
        u == Ulp(m)
        q == m \div u
        r == m % u
        stored == IF 2 * r > u \/ (2 * r = u /\ q % 2 = 1) THEN (q + 1) * u ELSE q * u
    IN  IF n < 0 THEN -stored ELSE stored

\* Faulty variants of the accumulation: the layer's sample replaces what the
\* layers before it added, and the sum is kept within full scale.
Overwritten(a, b) == b
Clipped(a, b) == IF a + b > One THEN One ELSE IF a + b < -One THEN -One ELSE a + b

\* mixedData[i] += x, mixedData a Float32Array
Plus(a, b) == IF a = NaN \/ b = NaN THEN NaN ELSE Fround(a + b)

RECURSIVE MaxLength(_)
MaxLength(ls) == IF ls = <<>> THEN 0 ELSE Max(length(Last(ls)), MaxLength(Front(ls)))

RECURSIVE MaxChannels(_)
MaxChannels(ls) ==
    IF ls = <<>> THEN 1 ELSE Max(numberOfChannels(Last(ls)), MaxChannels(Front(ls)))

\* layerVolumes[k] and layerMuted[k] of arrays that may be shorter than layers
VolumeAt(vols, k) == IF k <= Len(vols) THEN vols[k] ELSE Hole
MutedAt(muted, k) == IF k <= Len(muted) THEN muted[k] ELSE FALSE

\* the sample the layers 1..n add up to at channel c, frame i
RECURSIVE MixedSample(_, _, _, _, _, _)
MixedSample(ls, vols, muted, n, c, i) ==
    IF n = 0 THEN 0
    ELSE LET rest == MixedSample(ls, vols, muted, n - 1, c, i)
             layer == ls[n]
         IN  IF MutedAt(muted, n) \/ i > length(layer) THEN rest
             ELSE Plus(rest, Scale(layer[Min(c, numberOfChannels(layer))][i],
                                   VolumeAt(vols, n)))

\* the additive mix of two or more layers
MixSum(ls, vols, muted) ==
    [c \in 1..MaxChannels(ls) |->
        [i \in 1..MaxLength(ls) |-> MixedSample(ls, vols, muted, Len(ls), c, i)]]

mixLayers(ls, vols, muted) ==
    IF Len(ls) = 0 THEN Null
    ELSE IF Len(ls) = 1 THEN ls[1]
    ELSE MixSum(ls, vols, muted)

----------------------------------------------------------------------------
(* History *)

\* { layers: [...this.layers], layerVolumes: [...], layerMuted: [...] }
Snapshot(ls, vols, muted) == [layers |-> ls, layerVolumes |-> vols, layerMuted |-> muted]

\* Faulty variants of the two pushes, which the history properties must tell
\* from the real ones: a push that never discards, and a push that is forgotten.
PushWithoutShift == Append(undoStack, Snapshot(layers, layerVolumes, layerMuted))
PushForgotten == redoStack

\* the undo stack after saveStateToUndo: push, then shift() when over MaxHistory
saveStateToUndo ==
    LET pushed == Append(undoStack, Snapshot(layers, layerVolumes, layerMuted))
    IN  IF Len(pushed) > MaxHistory THEN Tail(pushed) ELSE pushed

\* the redo stack after saveStateToRedo
saveStateToRedo ==
    LET pushed == Append(redoStack, Snapshot(layers, layerVolumes, layerMuted))
    IN  IF Len(pushed) > MaxHistory THEN Tail(pushed) ELSE pushed

\* Faulty variant: the button follows the stack alone
DisabledOnEmptyStackOnly(stack, ls) == Len(stack) = 0

\* the value updateUndoRedoButtons gives elements.undoBtn.disabled
updateUndoRedoButtons(stack, ls) == Len(stack) = 0 \/ Len(ls) <= 1

\* Faulty variant: the history survives
HistoryKept == UNCHANGED <<undoStack, redoStack>>

\* this.undoStack = []; this.redoStack = [] of handleRecord, handleFileLoad, handleClear
ClearHistory == undoStack' = <<>> /\ redoStack' = <<>>

\* array[index] = value on a JavaScript array: extends it, leaving holes
SetAt(arr, index, value, hole) ==
    IF index <= Len(arr) THEN [arr EXCEPT ![index] = value]
    ELSE arr \o [k \in 1..(index - Len(arr) - 1) |-> hole] \o <<value>>

----------------------------------------------------------------------------
(* Initial state: the state the constructor leaves.  The page markup, which *)
(* is not part of the sources, decides whether the buttons start disabled   *)
(* and new Worker(..) may throw, leaving analysisWorker null.               *)

Constructed ==
    /\ layers = <<>> /\ layerVolumes = <<>> /\ layerMuted = <<>>
    /\ loopAudioBuffer = Null
    /\ undoStack = <<>> /\ redoStack = <<>>
    /\ isRecording = FALSE /\ stream = FALSE
    /\ mediaRecorder = "none" /\ recordingTimer = "none" /\ orphanTimer = FALSE
    /\ stopped = [record |-> 0, overdub |-> 0]
    /\ awaiting = <<>>
    /\ undoBtnDisabled \in BOOLEAN
    /\ overdubBtnDisabled \in BOOLEAN
    /\ clearBtnDisabled \in BOOLEAN
    /\ renderedLayers = 0
    /\ statusText = "Ready to record!"
    /\ analysisWorker \in BOOLEAN
    /\ workerQueue = <<>> /\ mainQueue = <<>> /\ timers = <<>>
    /\ tempoValue = "--" /\ keyValue = "--" /\ detectedChords = FALSE
    /\ detectChordsBtnShown = FALSE /\ detectChordsBtnDisabled = FALSE
    /\ unhandled = {}
    /\ edits = 0
    /\ workerData = <<>> /\ timerData = <<>> /\ analysed = <<>>
    /\ heap = [arrays |-> [n \in Refs |-> <<>>],
               layers |-> 1, layerVolumes |-> 2, layerMuted |-> 3,
               undoStack |-> <<>>, redoStack |-> <<>>]
    /\ player = [audioBuffer |-> FALSE, sourceNode |-> 0, isPlaying |-> FALSE,
                 animationFrame |-> 0, onEndCallback |-> 0]
    /\ browser = [sources |-> [s \in 1..MaxPlays |-> "none"], frame |-> 0,
                  called |-> Null]
    /\ audioContext = Null /\ metronomeIsPlaying = FALSE /\ compositeRate = Null

Init == Constructed /\ input = <<>> /\ output = <<>>

----------------------------------------------------------------------------
(* Recorder *)

\* recorder.stopRecording(): stop the current MediaRecorder, clear the current interval
stopRecording ==
    /\ IF mediaRecorder # "none"
       THEN stopped' = [stopped EXCEPT ![mediaRecorder] = @ + 1]
       ELSE stopped' = stopped
    /\ mediaRecorder' = "none"
    /\ recordingTimer' = "none"

\* recorder.startRecording() once the stream is there: a new MediaRecorder replaces
\* the current one (which, if still recording, is never stopped) and a new interval
\* replaces the handle of the current one (which then keeps running)
startRecording(kind, duration) ==
    /\ stream' = TRUE
    /\ mediaRecorder' = kind
    /\ recordingTimer' = duration
    /\ orphanTimer' = (orphanTimer \/ recordingTimer = "numeric")
    /\ stopped' = stopped

\* handleRecord while a recording is on: the button stops it
HandleRecordStop ==
    /\ isRecording
    /\ stopRecording
    /\ UNCHANGED <<compVars, uiVars, anaVars, isRecording, stream, awaiting,
                   orphanTimer>>

\* handleRecord otherwise: start recording the base loop for loopLength seconds
HandleRecordStart(granted) ==
    /\ ~isRecording
    /\ stream => granted
    /\ IF granted
       THEN /\ isRecording' = TRUE
            /\ statusText' = "Recording..."
            /\ startRecording("record", "numeric")
       ELSE /\ isRecording' = FALSE
            /\ statusText' = "Failed to start recording"
            /\ UNCHANGED <<stream, mediaRecorder, recordingTimer, orphanTimer, stopped>>
    /\ UNCHANGED <<compVars, anaVars, awaiting, undoBtnDisabled,
                   overdubBtnDisabled, clearBtnDisabled, renderedLayers>>

\* the setInterval callback of startRecording reaches elapsed >= recordingDuration
\* (never for a NaN duration) and calls this.stopRecording()
TimerElapsed ==
    /\ recordingTimer = "numeric" \/ orphanTimer
    /\ mediaRecorder # "none" \/ recordingTimer # "none"
    /\ stopRecording
    /\ UNCHANGED <<compVars, uiVars, anaVars, isRecording, stream, awaiting,
                   orphanTimer>>

InFlight == Len(workerQueue) + Len(mainQueue) + Len(timers)

\* analyzeAudio(audioBuffer) for a buffer that is not null: two requests
analyzeAudio ==
    IF analysisWorker
    THEN /\ workerQueue' = workerQueue \o <<"tempo", "key">>
         /\ timers' = timers
    ELSE /\ timers' = timers \o <<"tempo", "key">>
         /\ workerQueue' = workerQueue

\* the completion callback of handleRecord, up to its first await
RecordComplete(buf) ==
    /\ stopped.record > 0
    /\ stopped' = [stopped EXCEPT !.record = @ - 1]
    /\ isRecording' = FALSE
    /\ layers' = <<buf>>
    /\ layerVolumes' = <<100>>
    /\ layerMuted' = <<FALSE>>
    /\ ClearHistory
    /\ undoBtnDisabled' = updateUndoRedoButtons(undoStack', layers')
    /\ loopAudioBuffer' = layers'[1]
    /\ awaiting' = Append(awaiting, "record")
    /\ UNCHANGED <<anaVars, stream, mediaRecorder, recordingTimer, orphanTimer,
                   overdubBtnDisabled, clearBtnDisabled, renderedLayers, statusText>>

\* the rest of that callback, once the waveform is ready: analyzeAudio of
\* this.loopAudioBuffer (a TypeError when it is null by now), enableControls,
\* updateLayerControls
RecordContinue ==
    /\ awaiting # <<>> /\ Head(awaiting) = "record"
    /\ awaiting' = Tail(awaiting)
    /\ statusText' = IF loopAudioBuffer = Null THEN "Analyzing audio..."
                     ELSE "Recording complete!"
    /\ IF loopAudioBuffer = Null
       THEN /\ unhandled' = unhandled \cup {"recordCallback"}
            /\ UNCHANGED <<workerQueue, timers, overdubBtnDisabled, clearBtnDisabled,
                           detectChordsBtnShown, undoBtnDisabled, renderedLayers>>
       ELSE /\ analyzeAudio
            /\ overdubBtnDisabled' = FALSE
            /\ clearBtnDisabled' = FALSE
            /\ detectChordsBtnShown' = TRUE
            /\ undoBtnDisabled' = updateUndoRedoButtons(undoStack, layers)
            /\ renderedLayers' = Len(layers)
            /\ unhandled' = unhandled
    /\ UNCHANGED <<compVars, isRecording, stream, mediaRecorder, stopped,
                   recordingTimer, orphanTimer, analysisWorker, mainQueue, tempoValue,
                   keyValue, detectedChords, detectChordsBtnDisabled>>

----------------------------------------------------------------------------
(* Overdub and undo *)

\* overdubs recorded or being recorded that have not yet become a layer
PendingOverdubs == stopped.overdub + (IF mediaRecorder = "overdub" THEN 1 ELSE 0)

\* handleOverdub.  The duration it passes is the identifier loopLength, which is no
\* variable of the function: it names the element with id loopLength, and
\* element * 1000 is NaN, so the interval never reaches elapsed >= recordingDuration.
HandleOverdubStart(granted) ==
    /\ ~overdubBtnDisabled
    /\ loopAudioBuffer # Null
    /\ Len(layers) > 0
    /\ stream => granted
    /\ IF granted
       THEN /\ isRecording' = TRUE
            /\ statusText' = "Recording overdub..."
            /\ overdubBtnDisabled' = TRUE
            /\ startRecording("overdub", "NaN")
       ELSE /\ isRecording' = FALSE
            /\ statusText' = "Failed to record overdub"
            /\ overdubBtnDisabled' = FALSE
            /\ UNCHANGED <<stream, mediaRecorder, recordingTimer, orphanTimer, stopped>>
    /\ UNCHANGED <<compVars, anaVars, awaiting, undoBtnDisabled,
                   clearBtnDisabled, renderedLayers>>

\* the completion callback of handleOverdub, up to its await
OverdubComplete(buf) ==
    /\ stopped.overdub > 0
    /\ stopped' = [stopped EXCEPT !.overdub = @ - 1]
    /\ isRecording' = FALSE
    /\ undoStack' = saveStateToUndo
    /\ undoBtnDisabled' = updateUndoRedoButtons(undoStack', layers)
    /\ layers' = Append(layers, buf)
    /\ layerVolumes' = Append(layerVolumes, 100)
    /\ layerMuted' = Append(layerMuted, FALSE)
    /\ redoStack' = <<>>
    /\ loopAudioBuffer' = mixLayers(layers', layerVolumes', layerMuted')
    /\ awaiting' = Append(awaiting, "overdub")
    /\ UNCHANGED <<anaVars, stream, mediaRecorder, recordingTimer, orphanTimer,
                   overdubBtnDisabled, clearBtnDisabled, renderedLayers, statusText>>

\* the rest of that callback: updateLayerControls, status, overdub button
OverdubContinue ==
    /\ awaiting # <<>> /\ Head(awaiting) = "overdub"
    /\ awaiting' = Tail(awaiting)
    /\ renderedLayers' = Len(layers)
    /\ statusText' = "Overdub complete!"
    /\ overdubBtnDisabled' = FALSE
    /\ UNCHANGED <<compVars, anaVars, isRecording, stream, mediaRecorder,
                   stopped, recordingTimer, orphanTimer, undoBtnDisabled,
                   clearBtnDisabled>>

\* Faulty variant: the empty stack is reported as an undo
NothingToUndoUnreported ==
    /\ statusText' = "Undone - Last layer removed"
    /\ UNCHANGED <<compVars, undoBtnDisabled, renderedLayers, unhandled>>

\* handleUndo on an empty undo stack: the status, and return
NothingToUndo ==
    /\ statusText' = "Nothing to undo"
    /\ UNCHANGED <<compVars, undoBtnDisabled, renderedLayers, unhandled>>

\* handleUndo, reached by a click on the undo button
HandleUndo ==
    /\ ~undoBtnDisabled
    /\ IF Len(undoStack) = 0
       THEN NothingToUndo
       ELSE LET previousState == Last(undoStack) IN
            /\ redoStack' = saveStateToRedo
            /\ undoStack' = Front(undoStack)
            /\ layers' = previousState.layers
            /\ layerVolumes' = previousState.layerVolumes
            /\ layerMuted' = previousState.layerMuted
            /\ loopAudioBuffer' = mixLayers(layers', layerVolumes', layerMuted')
            /\ unhandled' = IF loopAudioBuffer' = Null
                            THEN unhandled \cup {"loadAudioToWaveform"}
                            ELSE unhandled
            /\ renderedLayers' = Len(layers')
            /\ undoBtnDisabled' = updateUndoRedoButtons(undoStack', layers')
            /\ statusText' = "Undone - Last layer removed"
    /\ UNCHANGED <<recVars, overdubBtnDisabled, clearBtnDisabled, analysisWorker,
                   workerQueue, mainQueue, timers, tempoValue, keyValue, detectedChords,
                   detectChordsBtnShown, detectChordsBtnDisabled>>

----------------------------------------------------------------------------
(* File load and clear *)

\* handleFileLoad for a file the decoder rejects: the catch block
HandleFileLoadFail ==
    /\ statusText' = "Failed to load file"
    /\ UNCHANGED <<compVars, recVars, anaVars, undoBtnDisabled,
                   overdubBtnDisabled, clearBtnDisabled, renderedLayers>>

\* handleFileLoad for a file that decodes to buf, up to `await loadAudioToWaveform`
HandleFileLoad(buf) ==
    /\ loopAudioBuffer' = buf
    /\ layers' = <<loopAudioBuffer'>>
    /\ layerVolumes' = <<100>>
    /\ layerMuted' = <<FALSE>>
    /\ ClearHistory
    /\ undoBtnDisabled' = updateUndoRedoButtons(undoStack', layers')
    /\ statusText' = "Preparing waveform..."
    /\ awaiting' = Append(awaiting, "load")
    /\ UNCHANGED <<anaVars, isRecording, stream, mediaRecorder, stopped,
                   recordingTimer, orphanTimer, overdubBtnDisabled, clearBtnDisabled,
                   renderedLayers>>

\* the rest of handleFileLoad: enableControls, updateLayerControls, status, then
\* analyzeAudio(this.loopAudioBuffer), whose TypeError for null the catch block takes
FileLoadContinue ==
    /\ awaiting # <<>> /\ Head(awaiting) = "load"
    /\ awaiting' = Tail(awaiting)
    /\ overdubBtnDisabled' = FALSE
    /\ clearBtnDisabled' = FALSE
    /\ detectChordsBtnShown' = TRUE
    /\ undoBtnDisabled' = updateUndoRedoButtons(undoStack, layers)
    /\ renderedLayers' = Len(layers)
    /\ IF loopAudioBuffer = Null
       THEN /\ statusText' = "Failed to load file"
            /\ UNCHANGED <<workerQueue, timers>>
       ELSE /\ statusText' = "Analyzing audio..."
            /\ analyzeAudio
    /\ UNCHANGED <<compVars, isRecording, stream, mediaRecorder, stopped,
                   recordingTimer, orphanTimer, analysisWorker, mainQueue, tempoValue,
                   keyValue, detectedChords, detectChordsBtnDisabled, unhandled>>

\* handleClear, confirmed
HandleClear ==
    /\ ~clearBtnDisabled
    /\ loopAudioBuffer' = Null
    /\ layers' = <<>>
    /\ layerVolumes' = <<>>
    /\ layerMuted' = <<>>
    /\ ClearHistory
    /\ tempoValue' = "--"
    /\ keyValue' = "--"
    /\ detectedChords' = FALSE
    /\ renderedLayers' = 0
    /\ overdubBtnDisabled' = TRUE
    /\ clearBtnDisabled' = TRUE
    /\ detectChordsBtnShown' = FALSE
    /\ undoBtnDisabled' = updateUndoRedoButtons(undoStack', layers')
    /\ statusText' = "Ready to record!"
    /\ UNCHANGED <<recVars, analysisWorker, workerQueue, mainQueue, timers,
                   detectChordsBtnDisabled, unhandled>>

----------------------------------------------------------------------------
(* Layer controls *)

\* handleLayerVolumeChange for the slider of row index, moved to volume percent
HandleLayerVolumeChange(index, volume) ==
    /\ index \in 1..renderedLayers
    /\ layerVolumes' = SetAt(layerVolumes, index, volume, Hole)
    /\ loopAudioBuffer' = mixLayers(layers, layerVolumes', layerMuted)
    /\ unhandled' = IF loopAudioBuffer' = Null
                    THEN unhandled \cup {"loadAudioToWaveform"}
                    ELSE unhandled
    /\ UNCHANGED <<layers, layerMuted, undoStack, redoStack, recVars, uiVars,
                   analysisWorker, workerQueue, mainQueue, timers, tempoValue, keyValue, detectedChords,
                   detectChordsBtnShown, detectChordsBtnDisabled>>

\* handleLayerMuteToggle for the mute button of row index
HandleLayerMuteToggle(index) ==
    /\ index \in 1..renderedLayers
    /\ layerMuted' = SetAt(layerMuted, index, ~MutedAt(layerMuted, index), FALSE)
    /\ loopAudioBuffer' = mixLayers(layers, layerVolumes, layerMuted')
    /\ unhandled' = IF loopAudioBuffer' = Null
                    THEN unhandled \cup {"loadAudioToWaveform"}
                    ELSE unhandled
    /\ UNCHANGED <<layers, layerVolumes, undoStack, redoStack, recVars, uiVars,
                   analysisWorker, workerQueue, mainQueue, timers, tempoValue, keyValue, detectedChords,
                   detectChordsBtnShown, detectChordsBtnDisabled>>

----------------------------------------------------------------------------
(* Analysis dispatcher *)

Outcomes == {"ok", "throw"}     \* an analysis function returns, or throws

\* handleDetectChords with a loop present (without one it returns at once)
HandleDetectChords ==
    /\ detectChordsBtnShown /\ ~detectChordsBtnDisabled
    /\ loopAudioBuffer # Null
    /\ statusText' = "Detecting chords..."
    /\ detectChordsBtnDisabled' = TRUE
    /\ IF analysisWorker
       THEN /\ workerQueue' = Append(workerQueue, "chords")
            /\ timers' = timers
       ELSE /\ timers' = Append(timers, "chords")
            /\ workerQueue' = workerQueue
    /\ UNCHANGED <<compVars, recVars, undoBtnDisabled, overdubBtnDisabled,
                   clearBtnDisabled, renderedLayers, analysisWorker, mainQueue,
                   tempoValue, keyValue, detectedChords, detectChordsBtnShown, unhandled>>

\* the type of the message the worker's listener posts for a request
WorkerResponse(type, outcome) == IF outcome = "ok" THEN type ELSE "error"

\* the worker's message listener: switch on type inside try/catch
WorkerOnMessage(outcome) ==
    /\ workerQueue # <<>>
    /\ workerQueue' = Tail(workerQueue)
    /\ mainQueue' = Append(mainQueue, WorkerResponse(Head(workerQueue), outcome))
    /\ UNCHANGED <<compVars, recVars, uiVars, analysisWorker, timers,
                   tempoValue, keyValue, detectedChords, detectChordsBtnShown, detectChordsBtnDisabled,
                   unhandled>>

\* the listener setupWorkerListeners installs on the main thread
MainOnMessage ==
    /\ mainQueue # <<>>
    /\ mainQueue' = Tail(mainQueue)
    /\ LET type == Head(mainQueue) IN
       /\ tempoValue' = IF type = "tempo" THEN "BPM" ELSE tempoValue
       /\ keyValue' = IF type = "key" THEN "key" ELSE keyValue
       /\ detectedChords' = (type = "chords" \/ detectedChords)
       /\ statusText' = CASE type = "key" -> "Analysis complete!"
                          [] type = "chords" -> "Chord detection complete!"
                          [] OTHER -> statusText
       /\ detectChordsBtnDisabled' =
              IF type = "chords" THEN FALSE ELSE detectChordsBtnDisabled
    /\ UNCHANGED <<compVars, recVars, undoBtnDisabled, overdubBtnDisabled,
                   clearBtnDisabled, renderedLayers, analysisWorker, workerQueue,
                   timers, detectChordsBtnShown, unhandled>>

\* setTimeout delay of a fallback callback
Delay(type) == IF type = "key" THEN 200 ELSE 100

\* timer j is due before every timer set earlier with a delay not shorter
CanFire(j) == \A i \in 1..(j - 1) : Delay(timers[i]) > Delay(timers[j])

RemoveAt(s, j) == SubSeq(s, 1, j - 1) \o SubSeq(s, j + 1, Len(s))

\* a setTimeout callback of the fallback path: of analyzeAudio (tempo, key; each in
\* try/catch, on the buffer the closure holds) or of handleDetectChords (chords; no
\* try/catch, on this.loopAudioBuffer as it is when the timer fires)
TimerFire(j, outcome) ==
    /\ j \in 1..Len(timers)
    /\ CanFire(j)
    /\ timers' = RemoveAt(timers, j)
    /\ LET type == timers[j]
           threw == outcome = "throw" \/ (type = "chords" /\ loopAudioBuffer = Null)
       IN
       /\ tempoValue' = IF type # "tempo" THEN tempoValue
                        ELSE IF threw THEN "Error" ELSE "BPM"
       /\ keyValue' = IF type # "key" THEN keyValue
                      ELSE IF threw THEN "Error" ELSE "key"
       /\ statusText' = CASE type = "key" /\ threw -> "Analysis had errors"
                          [] type = "key" /\ ~threw -> "Analysis complete!"
                          [] type = "chords" /\ ~threw -> "Chord detection complete!"
                          [] OTHER -> statusText
       /\ detectChordsBtnDisabled' =
              IF type = "chords" /\ ~threw THEN FALSE ELSE detectChordsBtnDisabled
       /\ unhandled' = IF type = "chords" /\ threw
                       THEN unhandled \cup {"detectChords"}
                       ELSE unhandled
    /\ UNCHANGED <<compVars, recVars, undoBtnDisabled, overdubBtnDisabled,
                   clearBtnDisabled, renderedLayers, analysisWorker, workerQueue,
                   mainQueue, detectChordsBtnShown, detectedChords>>

----------------------------------------------------------------------------
(***************************************************************************)
(* Numbers of the analysis functions                                        *)
(*                                                                         *)
(* The analysis functions compute with JavaScript numbers.  A number is the *)
(* pair <<n, d>> of a reduced fraction n/d with d > 0, or one of Infinity,  *)
(* NegInfinity and NotANumber; the samples themselves are integers (as     *)
(* above).  Every quantity below is a ratio of small integers,             *)
(* on which float arithmetic and exact arithmetic agree.                    *)
(***************************************************************************)
Infinity == <<1, 0>>
NegInfinity == <<-1, 0>>
NotANumber == <<0, 0>>

Abs(x) == IF x < 0 THEN -x ELSE x

\* an array with its elements computed (once)
Array(f) == SubSeq(f, 1, Len(f))

RECURSIVE GCD(_, _)
GCD(a, b) == IF b = 0 THEN a ELSE GCD(b, a % b)

\* n / d as JavaScript divides: x/0 is an infinity, 0/0 is NaN
Frac(n, d) ==
    IF d = 0 THEN <<(IF n > 0 THEN 1 ELSE IF n < 0 THEN -1 ELSE 0), 0>>
    ELSE LET g == GCD(Abs(n), Abs(d))
             s == IF d < 0 THEN -1 ELSE 1
         IN  <<(s * n) \div g, (s * d) \div g>>

IsNaN(x) == x = NotANumber
IsFinite(x) == x[2] # 0
IsInteger(x) == x[2] = 1
Num(k) == <<k, 1>>

Add(x, y) ==
    IF IsNaN(x) \/ IsNaN(y) THEN NotANumber
    ELSE IF ~IsFinite(x) THEN (IF ~IsFinite(y) /\ y # x THEN NotANumber ELSE x)
    ELSE IF ~IsFinite(y) THEN y
    ELSE Frac(x[1] * y[2] + y[1] * x[2], x[2] * y[2])

Times(x, y) ==
    IF IsNaN(x) \/ IsNaN(y) THEN NotANumber
    ELSE IF IsFinite(x) /\ IsFinite(y) THEN Frac(x[1] * y[1], x[2] * y[2])
    ELSE IF x[1] = 0 \/ y[1] = 0 THEN NotANumber
    ELSE IF (x[1] > 0) = (y[1] > 0) THEN Infinity ELSE NegInfinity

Over(x, y) ==
    IF IsNaN(x) \/ IsNaN(y) THEN NotANumber
    ELSE IF IsFinite(x) /\ IsFinite(y) THEN Frac(x[1] * y[2], x[2] * y[1])
    ELSE IF ~IsFinite(x) /\ ~IsFinite(y) THEN NotANumber
    ELSE IF ~IsFinite(y) THEN Num(0)
    ELSE IF (x[1] > 0) = (y[1] >= 0) THEN Infinity ELSE NegInfinity

\* x > y; every comparison with NaN is false
Greater(x, y) ==
    IF IsNaN(x) \/ IsNaN(y) THEN FALSE
    ELSE IF ~IsFinite(x) /\ ~IsFinite(y) THEN x[1] > y[1]
    ELSE x[1] * y[2] > y[1] * x[2]

\* Math.round: the nearest integer, halves towards +Infinity
MathRound(x) == IF IsFinite(x) THEN Num((2 * x[1] + x[2]) \div (2 * x[2])) ELSE x
MathFloor(x) == IF IsFinite(x) THEN Num(x[1] \div x[2]) ELSE x
MathMin(x, y) == IF IsNaN(x) \/ IsNaN(y) THEN NotANumber ELSE IF Greater(x, y) THEN y ELSE x
MathMax(x, y) == IF IsNaN(x) \/ IsNaN(y) THEN NotANumber ELSE IF Greater(y, x) THEN y ELSE x

----------------------------------------------------------------------------
(***************************************************************************)
(* Tempo estimation: detectTempo of the worker and of AudioAnalyzer         *)
(***************************************************************************)
WorkerTempoHop == 2048      \* hopSize of the worker's detectTempo
AnalyzerTempoHop == 512     \* hopSize of AudioAnalyzer.detectTempo
MinBPM == 60
MaxBPM == 180

\* the sum of |a[lo]| .. |a[hi]|
RECURSIVE SumAbs(_, _, _)
SumAbs(a, lo, hi) ==
    IF lo > hi THEN 0
    ELSE IF lo = hi THEN Abs(a[lo])
    ELSE LET mid == (lo + hi) \div 2
         IN  SumAbs(a, lo, mid) + SumAbs(a, mid + 1, hi)

\* the worker divides a block's energy by the number of samples it summed
EnergyEnvelope(data, hopSize) ==
    Array([k \in 1..((Len(data) + hopSize - 1) \div hopSize) |->
              LET i == (k - 1) * hopSize
                  end == Min(i + hopSize, Len(data))
              IN  Frac(SumAbs(data, i + 1, end), end - i)])

\* AudioAnalyzer divides every block's energy, the last too, by hopSize
AudioAnalyzer_EnergyEnvelope(audioData, hopSize) ==
    Array([k \in 1..((Len(audioData) + hopSize - 1) \div hopSize) |->
              LET i == (k - 1) * hopSize
              IN  Frac(SumAbs(audioData, i + 1, Min(i + hopSize, Len(audioData))),
                       hopSize)])

\* the inner loop: <<correlation, count>> over i, i + step, .. below length - lag
RECURSIVE CorrelationSum(_, _, _, _)
CorrelationSum(energyEnvelope, lag, i, step) ==
    IF i >= Len(energyEnvelope) - lag THEN <<Num(0), 0>>
    ELSE LET rest == CorrelationSum(energyEnvelope, lag, i + step, step)
         IN  <<Add(Times(energyEnvelope[i + 1], energyEnvelope[i + 1 + lag]), rest[1]),
               rest[2] + 1>>

\* correlation /= count: 0/0 when no pair exists
Correlation(energyEnvelope, lag, step) ==
    LET s == CorrelationSum(energyEnvelope, lag, 0, step)
    IN  Over(s[1], Num(s[2]))

\* the outer loop from lag on, best being the pair bestCorr, bestLag so far
RECURSIVE SearchLags(_, _, _, _, _, _)
SearchLags(energyEnvelope, lag, maxLag, lagStep, step, best) ==
    IF lag >= maxLag THEN best
    ELSE LET correlation == Correlation(energyEnvelope, lag, step)
         IN  SearchLags(energyEnvelope, lag + lagStep, maxLag, lagStep, step,
                        IF Greater(correlation, best.bestCorr)
                        THEN [bestCorr |-> correlation, bestLag |-> lag]
                        ELSE best)

\* Math.floor(60 * (sampleRate / hopSize) / bpm)
LagOf(sampleRate, hopSize, bpm) == (60 * sampleRate) \div (hopSize * bpm)

\* the lags the outer loop takes: minLag, minLag + lagStep, .. below maxLag
Lags(sampleRate, hopSize, lagStep) ==
    {lag \in LagOf(sampleRate, hopSize, MaxBPM)..(LagOf(sampleRate, hopSize, MinBPM) - 1) :
        (lag - LagOf(sampleRate, hopSize, MaxBPM)) % lagStep = 0}

BestLag(energyEnvelope, sampleRate, hopSize, lagStep, step) ==
    SearchLags(energyEnvelope, LagOf(sampleRate, hopSize, MaxBPM),
               LagOf(sampleRate, hopSize, MinBPM), lagStep, step,
               [bestCorr |-> NegInfinity, bestLag |-> 0]).bestLag

BpmUnrounded(sampleRate, hopSize, bestLag) == Frac(60 * sampleRate, hopSize * bestLag)
Unclamped(bpm) == bpm

\* Math.round(60 * (sampleRate / hopSize) / bestLag)
BpmOf(sampleRate, hopSize, bestLag) == MathRound(Frac(60 * sampleRate, hopSize * bestLag))

Clamp(bpm) == MathMax(Num(MinBPM), MathMin(Num(MaxBPM), bpm))

detectTempo(audioData, sampleRate) ==
    LET data == SubSeq(audioData, 1, Min(Len(audioData), 10 * sampleRate))
        energyEnvelope == EnergyEnvelope(data, WorkerTempoHop)
        bestLag == BestLag(energyEnvelope, sampleRate, WorkerTempoHop, 5, 2)
    IN  Clamp(BpmOf(sampleRate, WorkerTempoHop, bestLag))

AudioAnalyzer_detectTempo(audioData, sampleRate) ==
    LET energyEnvelope == AudioAnalyzer_EnergyEnvelope(audioData, AnalyzerTempoHop)
        bestLag == BestLag(energyEnvelope, sampleRate, AnalyzerTempoHop, 1, 1)
    IN  Clamp(BpmOf(sampleRate, AnalyzerTempoHop, bestLag))

----------------------------------------------------------------------------
(***************************************************************************)
(* Chromagram and key: calculateChromagramFast, calculateChromagram and     *)
(* detectKey of the worker and of AudioAnalyzer                             *)
(*                                                                         *)
(* The samples these functions are given are the record of their number,   *)
(* length, and of spectrum: spectrum[k] is what the bin loop adds to the   *)
(* twelve pitch classes for the k-th chunk the function takes, the sum of  *)
(* the magnitudes fft() gives the bins of each class between 80 and 2000   *)
(* Hz.  A magnitude is a square root, never negative.                      *)
(***************************************************************************)
WorkerFftSize == 2048       \* fftSize of calculateChromagramFast
AnalyzerFftSize == 4096     \* fftSize of calculateChromagram, both copies

Notes == <<"C", "C#", "D", "D#", "E", "F", "F#", "G", "G#", "A", "A#", "B">>

\* notes[index]; undefined outside the array
NoteName(notes, index) ==
    IF index \in 0..(Len(notes) - 1) THEN notes[index + 1] ELSE "undefined"

\* audioData.slice(0, end)
Slice(audioData, end) ==
    [length |-> Min(audioData.length, end), spectrum |-> audioData.spectrum]

\* how often the body of for (i = 0; i < n - fftSize; i += hopSize) runs
ChunkCount(n, fftSize, hopSize) ==
    IF n - fftSize <= 0 THEN 0 ELSE (n - fftSize + hopSize - 1) \div hopSize

\* new Array(12).fill(0), then chromagram[pitchClass] += spectrum[bin] for the
\* first count chunks
RECURSIVE Accumulate(_, _)
Accumulate(spectrum, count) ==
    IF count = 0 THEN [pc \in 1..12 |-> 0]
    ELSE LET chromagram == Accumulate(spectrum, count - 1)
         IN  [pc \in 1..12 |-> chromagram[pc] + spectrum[count][pc]]

\* Math.max(...chromagram)
RECURSIVE MaxOf(_)
MaxOf(chromagram) ==
    IF Len(chromagram) = 1 THEN chromagram[1]
    ELSE Max(Last(chromagram), MaxOf(Front(chromagram)))

\* chromagram.map(x => x / max)
Normalize(chromagram, max) == [pc \in 1..12 |-> Frac(chromagram[pc], max)]

calculateChromagramFast(audioData, sampleRate) ==
    LET maxSamples == Min(audioData.length, 2 * sampleRate)
        chromagram == Array(Accumulate(audioData.spectrum,
                                       ChunkCount(maxSamples, WorkerFftSize, WorkerFftSize)))
        max == MaxOf(chromagram)
    IN  IF max > 0 THEN Normalize(chromagram, max)
        ELSE [pc \in 1..12 |-> Num(chromagram[pc])]

calculateChromagram(audioData, sampleRate) ==
    LET chromagram == Array(Accumulate(audioData.spectrum,
                                       ChunkCount(audioData.length, AnalyzerFftSize,
                                                  AnalyzerFftSize \div 2)))
    IN  Normalize(chromagram, MaxOf(chromagram))

AudioAnalyzer_calculateChromagram(audioData, sampleRate) ==
    LET chromagram == Array(Accumulate(audioData.spectrum,
                                       ChunkCount(audioData.length, AnalyzerFftSize,
                                                  AnalyzerFftSize \div 2)))
    IN  Normalize(chromagram, MaxOf(chromagram))

\* the loop over i from i on, with maxEnergy and dominantPitch as they are so far
RECURSIVE DominantFrom(_, _, _, _)
DominantFrom(chromagram, i, maxEnergy, dominantPitch) ==
    IF i >= 12 THEN dominantPitch
    ELSE IF Greater(chromagram[i + 1], maxEnergy)
         THEN DominantFrom(chromagram, i + 1, chromagram[i + 1], i)
         ELSE DominantFrom(chromagram, i + 1, maxEnergy, dominantPitch)

DominantAboveZero(chromagram) == DominantFrom(chromagram, 0, Num(0), -1)

DominantPitch(chromagram) == DominantFrom(chromagram, 0, NegInfinity, 0)

\* the label both detectKey copies build from the chromagram
KeyOf(chromagram) ==
    LET dominantPitch == DominantPitch(chromagram)
        majorThird == chromagram[((dominantPitch + 4) % 12) + 1]
        minorThird == chromagram[((dominantPitch + 3) % 12) + 1]
        mode == IF Greater(majorThird, minorThird) THEN "Major" ELSE "Minor"
    IN  NoteName(Notes, dominantPitch) \o " " \o mode

detectKey(audioData, sampleRate) ==
    LET data == Slice(audioData, 5 * sampleRate)
    IN  KeyOf(calculateChromagramFast(data, sampleRate))

AudioAnalyzer_detectKey(audioData, sampleRate) ==
    KeyOf(AudioAnalyzer_calculateChromagram(audioData, sampleRate))

----------------------------------------------------------------------------
(***************************************************************************)
(* Chord identification: identifyChord of the worker and of AudioAnalyzer   *)
(***************************************************************************)

\* the comparator (a, b) => b.val - a.val is negative: a goes before b.  A NaN
\* difference counts as 0.
GoesBefore(a, b) == Greater(a.val, b.val)

\* Array.prototype.sort is stable: x goes behind every element it need not precede
RECURSIVE InsertSorted(_, _)
InsertSorted(sorted, x) ==
    IF sorted = <<>> THEN <<x>>
    ELSE IF GoesBefore(x, Last(sorted)) THEN Append(InsertSorted(Front(sorted), x), Last(sorted))
    ELSE Append(sorted, x)

RECURSIVE SortByEnergy(_)
SortByEnergy(indexed) ==
    IF indexed = <<>> THEN <<>>
    ELSE InsertSorted(SortByEnergy(Front(indexed)), Last(indexed))

\* .sort((a, b) => a - b) of three indices
Ascending(t) ==
    LET lo == Min(t[1], Min(t[2], t[3]))
        hi == Max(t[1], Max(t[2], t[3]))
    IN  <<lo, t[1] + t[2] + t[3] - lo - hi, hi>>

Top3Unsorted(chromagram) ==
    LET indexed == SortByEnergy([k \in 1..Len(chromagram) |->
                                    [val |-> chromagram[k], idx |-> k - 1]])
    IN  <<indexed[1].idx, indexed[2].idx, indexed[3].idx>>

Top3(chromagram) ==
    LET indexed == SortByEnergy([k \in 1..Len(chromagram) |->
                                    [val |-> chromagram[k], idx |-> k - 1]])
    IN  Ascending(<<indexed[1].idx, indexed[2].idx, indexed[3].idx>>)

Intervals(top3, root) == [k \in 1..3 |-> (top3[k] - root + 12) % 12]

Includes(intervals, x) == \E k \in 1..Len(intervals) : intervals[k] = x

BareRoot(root, intervals) == NoteName(Notes, root)

\* the chain of template tests, the first that matches returns
ChordLabel(root, intervals) ==
    IF Includes(intervals, 0) /\ Includes(intervals, 4) /\ Includes(intervals, 7)
    THEN NoteName(Notes, root)
    ELSE IF Includes(intervals, 0) /\ Includes(intervals, 3) /\ Includes(intervals, 7)
    THEN NoteName(Notes, root) \o "m"
    ELSE IF Includes(intervals, 0) /\ Includes(intervals, 4) /\ Includes(intervals, 10)
    THEN NoteName(Notes, root) \o "7"
    ELSE IF Includes(intervals, 0) /\ Includes(intervals, 4) /\ Includes(intervals, 11)
    THEN NoteName(Notes, root) \o "maj7"
    ELSE IF Includes(intervals, 0) /\ Includes(intervals, 3) /\ Includes(intervals, 10)
    THEN NoteName(Notes, root) \o "m7"
    ELSE NoteName(Notes, root)

identifyChord(chromagram) ==
    LET top3 == Top3(chromagram)
        root == top3[1]
    IN  ChordLabel(root, Intervals(top3, root))

AudioAnalyzer_identifyChord(chromagram) ==
    LET top3 == Top3(chromagram)
        root == top3[1]
    IN  ChordLabel(root, Intervals(top3, root))

----------------------------------------------------------------------------
(***************************************************************************)
(* Chord timelines: detectChords and detectChordSimple of the worker,       *)
(* detectChords of AudioAnalyzer                                           *)
(***************************************************************************)
SimpleStep == 100           \* step of detectChordSimple

\* x.toFixed(1) for x >= 0: the nearest tenth, the larger of two equally near
ToFixed1(x) ==
    LET n == (20 * x[1] + x[2]) \div (2 * x[2])
    IN  ToString(n \div 10) \o "." \o ToString(n % 10)

\* peaks: the mean of |sample| over each run of step samples that starts before
\* length - step
Peaks(audioData, step) ==
    Array([k \in 1..ChunkCount(Len(audioData), step, step) |->
              Frac(SumAbs(audioData, (k - 1) * step + 1, k * step), step)])

\* peaks.reduce((a, b) => a + b, 0)
RECURSIVE SumOf(_)
SumOf(peaks) == IF peaks = <<>> THEN Num(0) ELSE Add(SumOf(Front(peaks)), Last(peaks))

\* x % 7 of a number that is an integer or NaN
Mod7(x) == IF IsInteger(x) THEN x[1] % 7 ELSE -1

detectChordSimple(audioData, sampleRate) ==
    LET peaks == Peaks(audioData, SimpleStep)
        avgEnergy == Over(SumOf(peaks), Num(Len(peaks)))
        peakCount == Cardinality({k \in 1..Len(peaks) :
                                     Greater(peaks[k], Times(avgEnergy, Frac(3, 2)))})
        noteIndex == Mod7(MathFloor(Frac(peakCount * 7, Len(peaks))))
        typeIndex == peakCount % 3
    IN  NoteName(<<"C", "D", "E", "F", "G", "A", "B">>, noteIndex)
            \o NoteName(<<"", "m", "7">>, typeIndex)

\* the loop of the worker's detectChords from start on, chords being the events
\* pushed so far
RECURSIVE WorkerWindows(_, _, _, _)
WorkerWindows(audioData, sampleRate, start, chords) ==
    LET windowSize == sampleRate
        end == Min(start + windowSize, Len(audioData))
        window == SubSeq(audioData, start + 1, end)
        chord == detectChordSimple(window, sampleRate)
        timeInSeconds == Frac(start, sampleRate)
    IN  IF start >= Len(audioData) THEN chords
        ELSE IF 2 * Len(window) < windowSize THEN chords
        ELSE WorkerWindows(audioData, sampleRate, start + windowSize,
                 IF Len(chords) = 0 \/ Last(chords).chord # chord
                 THEN Append(chords, [time |-> ToFixed1(timeInSeconds) \o "s",
                                      timeInSeconds |-> timeInSeconds,
                                      chord |-> chord])
                 ELSE chords)

\* if (chords.length === 0) chords.push(the default)
WithDefault(chords) ==
    IF Len(chords) = 0
    THEN <<[time |-> "0.0s", timeInSeconds |-> Num(0), chord |-> "C"]>>
    ELSE chords

detectChords(audioData, sampleRate) ==
    WithDefault(WorkerWindows(audioData, sampleRate, 0, <<>>))

\* the chunk energies of the window-th window of AudioAnalyzer.detectChords
WindowSpectrum(audioData, window) ==
    IF window <= Len(audioData.spectrum) THEN audioData.spectrum[window] ELSE <<>>

\* the loop of AudioAnalyzer.detectChords from start on
RECURSIVE AnalyzerWindows(_, _, _, _)
AnalyzerWindows(audioData, sampleRate, start, chords) ==
    LET windowSize == 2 * sampleRate
        end == Min(start + windowSize, audioData.length)
        window == [length |-> end - start,
                   spectrum |-> WindowSpectrum(audioData, (start \div windowSize) + 1)]
        chromagram == AudioAnalyzer_calculateChromagram(window, sampleRate)
        chord == AudioAnalyzer_identifyChord(chromagram)
        timeStart == Frac(start, sampleRate)
        timeEnd == Frac(end, sampleRate)
    IN  IF start >= audioData.length THEN chords
        ELSE AnalyzerWindows(audioData, sampleRate, start + windowSize,
                 Append(chords, [time |-> ToFixed1(timeStart) \o "s - "
                                              \o ToFixed1(timeEnd) \o "s",
                                 chord |-> chord]))

AudioAnalyzer_detectChords(audioData, sampleRate) ==
    AnalyzerWindows(audioData, sampleRate, 0, <<>>)

----------------------------------------------------------------------------
(* Specifications *)

\* no callback is pending: no stopped recorder awaits its completion callback, no
\* callback is suspended at an await, no analysis request or response is in flight
Settled ==
    /\ stopped.record = 0 /\ stopped.overdub = 0
    /\ awaiting = <<>>
    /\ InFlight = 0

\* Spec: the compositor and its history.  The user acts on the settled application,
\* also while a recording is running; each callback runs as a whole handler.  The
\* worker is there and its analyses succeed; chords are not asked for.
InitHistory == Init /\ analysisWorker

Next ==
    \/ \E granted \in BOOLEAN :
           Settled /\ HandleRecordStart(granted) /\ UNCHANGED auxVars
    \/ Settled /\ HandleRecordStop /\ UNCHANGED auxVars
    \/ \E granted \in BOOLEAN :
           /\ Settled /\ Len(layers) + PendingOverdubs < MaxLayers
           /\ HandleOverdubStart(granted) /\ UNCHANGED auxVars
    \/ Settled /\ HandleUndo /\ UNCHANGED auxVars
    \/ Settled /\ HandleFileLoadFail /\ UNCHANGED auxVars
    \/ \E buf \in Buffers : Settled /\ HandleFileLoad(buf) /\ UNCHANGED auxVars
    \/ Settled /\ HandleClear /\ UNCHANGED auxVars
    \/ \E index \in 1..renderedLayers, volume \in Volumes :
           /\ Settled /\ edits < MaxEdits /\ edits' = edits + 1 /\ UNCHANGED <<fnVars, reqVars, heap, audioVars>>
           /\ HandleLayerVolumeChange(index, volume)
    \/ \E index \in 1..renderedLayers :
           /\ Settled /\ edits < MaxEdits /\ edits' = edits + 1 /\ UNCHANGED <<fnVars, reqVars, heap, audioVars>>
           /\ HandleLayerMuteToggle(index)
    \/ TimerElapsed /\ UNCHANGED auxVars
    \/ \E buf \in Buffers : RecordComplete(buf) /\ UNCHANGED auxVars
    \/ RecordContinue /\ UNCHANGED auxVars
    \/ \E buf \in Buffers : OverdubComplete(buf) /\ UNCHANGED auxVars
    \/ OverdubContinue /\ UNCHANGED auxVars
    \/ FileLoadContinue /\ UNCHANGED auxVars
    \/ WorkerOnMessage("ok") /\ UNCHANGED auxVars
    \/ MainOnMessage /\ UNCHANGED auxVars

Spec == InitHistory /\ [][Next]_vars

\* SpecDeep: the same user, who records one kind of buffer, leaves the sliders
\* alone and overdubs until the history is past its depth.
NextDeep ==
    \/ \E granted \in BOOLEAN :
           Settled /\ HandleRecordStart(granted) /\ UNCHANGED auxVars
    \/ Settled /\ HandleRecordStop /\ UNCHANGED auxVars
    \/ \E granted \in BOOLEAN :
           /\ Settled /\ Len(layers) + PendingOverdubs < MaxDeepLayers
           /\ HandleOverdubStart(granted) /\ UNCHANGED auxVars
    \/ Settled /\ HandleUndo /\ UNCHANGED auxVars
    \/ Settled /\ HandleFileLoadFail /\ UNCHANGED auxVars
    \/ Settled /\ HandleFileLoad(B1) /\ UNCHANGED auxVars
    \/ Settled /\ HandleClear /\ UNCHANGED auxVars
    \/ TimerElapsed /\ UNCHANGED auxVars
    \/ RecordComplete(B1) /\ UNCHANGED auxVars
    \/ RecordContinue /\ UNCHANGED auxVars
    \/ OverdubComplete(B1) /\ UNCHANGED auxVars
    \/ OverdubContinue /\ UNCHANGED auxVars
    \/ FileLoadContinue /\ UNCHANGED auxVars
    \/ WorkerOnMessage("ok") /\ UNCHANGED auxVars
    \/ MainOnMessage /\ UNCHANGED auxVars

SpecDeep == InitHistory /\ [][NextDeep]_vars

\* SpecAnalysis: the dispatcher.  The user loads, records and clears loops and asks
\* for chords at any moment, also while callbacks and analyses are pending; there
\* are no overdubs.  A handler that dispatches runs while the dispatcher has room.
NextAnalysis ==
    \/ \E granted \in BOOLEAN : HandleRecordStart(granted) /\ UNCHANGED auxVars
    \/ HandleRecordStop /\ UNCHANGED auxVars
    \/ TimerElapsed /\ UNCHANGED auxVars
    \/ \E buf \in Buffers :
           awaiting = <<>> /\ RecordComplete(buf) /\ UNCHANGED auxVars
    \/ InFlight + 2 <= MaxInFlight /\ RecordContinue /\ UNCHANGED auxVars
    \/ \E buf \in Buffers :
           awaiting = <<>> /\ HandleFileLoad(buf) /\ UNCHANGED auxVars
    \/ InFlight + 2 <= MaxInFlight /\ FileLoadContinue /\ UNCHANGED auxVars
    \/ HandleClear /\ UNCHANGED auxVars
    \/ InFlight + 1 <= MaxInFlight /\ HandleDetectChords /\ UNCHANGED auxVars
    \/ \E outcome \in Outcomes : WorkerOnMessage(outcome) /\ UNCHANGED auxVars
    \/ MainOnMessage /\ UNCHANGED auxVars
    \/ \E j \in 1..Len(timers), outcome \in Outcomes :
           TimerFire(j, outcome) /\ UNCHANGED auxVars

SpecAnalysis == Init /\ [][NextAnalysis]_vars

\* SpecRequests: the requests with what they carry.  A request sent to the worker
\* carries Array.from(audioData), a copy of channel 0 of the composite; the timer
\* callbacks of analyzeAudio's fallback hold the audioBuffer they were called with
\* (no code writes into a buffer once it is a layer or a mix); the timer callback
\* of handleDetectChords' fallback holds this alone and reads this.loopAudioBuffer
\* when it runs.  issued is channel 0 of the composite when the request was made.
\* The page starts with its three buttons disabled.  The user loads the file B1,
\* overdubs B2 up to MaxRequestLayers layers, undoes, clears, moves a slider,
\* mutes and asks for chords at any moment, with at most MaxRequests requests
\* under way; the analysis functions return.
MaxRequestLayers == 3
MaxRequests == 2

getChannelData(buf) == IF buf = Null THEN Null ELSE buf[1]

Copied == [live |-> FALSE, samples |-> getChannelData(loopAudioBuffer),
           issued |-> getChannelData(loopAudioBuffer)]

ReadWhenRun == [live |-> TRUE, samples |-> Null,
                issued |-> getChannelData(loopAudioBuffer)]

\* the samples the analysis of a request runs on
SamplesOf(request) ==
    IF request.live THEN getChannelData(loopAudioBuffer) ELSE request.samples

\* analyzeAudio(this.loopAudioBuffer) at the end of handleFileLoad
AnalyzeLoadedFile ==
    /\ FileLoadContinue
    /\ IF loopAudioBuffer = Null
       THEN UNCHANGED <<workerData, timerData>>
       ELSE IF analysisWorker
            THEN workerData' = workerData \o <<Copied, Copied>> /\ timerData' = timerData
            ELSE timerData' = timerData \o <<Copied, Copied>> /\ workerData' = workerData
    /\ UNCHANGED analysed

\* handleDetectChords
RequestChords ==
    /\ HandleDetectChords
    /\ IF analysisWorker
       THEN workerData' = Append(workerData, Copied) /\ timerData' = timerData
       ELSE timerData' = Append(timerData, ReadWhenRun) /\ workerData' = workerData
    /\ UNCHANGED analysed

\* the worker's listener runs the function on e.data.audioData
WorkerAnalyses ==
    /\ WorkerOnMessage("ok")
    /\ analysed' = [samples |-> SamplesOf(Head(workerData)),
                    issued |-> Head(workerData).issued]
    /\ workerData' = Tail(workerData)
    /\ UNCHANGED timerData

\* a timer callback of the fallback path runs the function
TimerAnalyses(j) ==
    /\ TimerFire(j, "ok")
    /\ analysed' = [samples |-> SamplesOf(timerData[j]), issued |-> timerData[j].issued]
    /\ timerData' = RemoveAt(timerData, j)
    /\ UNCHANGED workerData

NextRequests ==
    \/ awaiting = <<>> /\ HandleFileLoad(B1) /\ UNCHANGED auxVars
    \/ InFlight + 2 <= MaxRequests /\ AnalyzeLoadedFile /\ UNCHANGED <<edits, fnVars, heap, audioVars>>
    \/ HandleClear /\ UNCHANGED auxVars
    \/ InFlight + 1 <= MaxRequests /\ RequestChords /\ UNCHANGED <<edits, fnVars, heap, audioVars>>
    \/ /\ Len(layers) + PendingOverdubs < MaxRequestLayers
       /\ HandleOverdubStart(TRUE) /\ UNCHANGED auxVars
    \/ HandleRecordStop /\ UNCHANGED auxVars
    \/ awaiting = <<>> /\ OverdubComplete(B2) /\ UNCHANGED auxVars
    \/ OverdubContinue /\ UNCHANGED auxVars
    \/ HandleUndo /\ UNCHANGED auxVars
    \/ \E index \in 1..renderedLayers, volume \in Volumes :
           /\ edits < MaxEdits /\ edits' = edits + 1 /\ UNCHANGED <<fnVars, reqVars, heap, audioVars>>
           /\ HandleLayerVolumeChange(index, volume)
    \/ \E index \in 1..renderedLayers :
           /\ edits < MaxEdits /\ edits' = edits + 1 /\ UNCHANGED <<fnVars, reqVars, heap, audioVars>>
           /\ HandleLayerMuteToggle(index)
    \/ WorkerAnalyses /\ UNCHANGED <<edits, fnVars, heap, audioVars>>
    \/ MainOnMessage /\ UNCHANGED auxVars
    \/ \E j \in 1..Len(timers) : TimerAnalyses(j) /\ UNCHANGED <<edits, fnVars, heap, audioVars>>

InitRequests == Init /\ undoBtnDisabled /\ overdubBtnDisabled /\ clearBtnDisabled

SpecRequests == InitRequests /\ [][NextRequests]_vars

----------------------------------------------------------------------------
(* Specifications of the analysis functions: the application stays as      *)
(* constructed, an input is drawn and the functions are applied to it.     *)

Untouched ==
    /\ Constructed /\ analysisWorker
    /\ undoBtnDisabled /\ overdubBtnDisabled /\ clearBtnDisabled

appVars == <<compVars, recVars, uiVars, anaVars, edits, reqVars, heap, audioVars>>

\* Signals are given by their blocks: the samples of block k all have the value
\* pattern[k], and tail more samples of the value 100 follow the last block.
Signal(in) ==
    [i \in 1..(Len(in.pattern) * in.blockLength + in.tail) |->
        IF i <= Len(in.pattern) * in.blockLength
        THEN in.pattern[((i - 1) \div in.blockLength) + 1]
        ELSE 100]

Patterns(levels, n) == UNION {[1..k -> levels] : k \in 0..n}

\* a signal of n blocks that is silent but for its first block and block k
Pulses(level, n) == {[i \in 1..n |-> IF i \in {1, k} THEN level ELSE 0] : k \in 1..n}

\* SpecTempo: both tempo estimators.  At 2048 Hz (blocks of one AudioAnalyzer hop,
\* then a part of one) AudioAnalyzer searches the lags 1..3 and the worker has lag 0
\* alone; at 1 Hz the worker analyses the first ten samples only; at 16384 Hz
\* the worker searches the lags 2 and 7 and AudioAnalyzer the lags 10..31, on
\* signals too short for any lag (blocks of 512 samples) and on long ones (blocks
\* of one worker hop).
MaxTempoBlocks == 5
MaxPulseBlocks == 9
TempoLevels == {0, -100}
TempoTails == {0, 200}
TempoInputs ==
    {[sampleRate |-> r[1], blockLength |-> r[2], pattern |-> p, tail |-> t] :
        r \in {<<2048, 512>>, <<16384, 512>>, <<1, 2>>},
        p \in Patterns(TempoLevels, MaxTempoBlocks), t \in TempoTails}
    \cup
    {[sampleRate |-> 16384, blockLength |-> 2048, pattern |-> p, tail |-> 0] :
        p \in Pulses(-100, MaxPulseBlocks - 1) \cup Pulses(-100, MaxPulseBlocks)}

InitTempo == Untouched /\ input \in TempoInputs /\ output = Null

ApplyDetectTempo ==
    /\ LET audioData == Array(Signal(input)) IN
       output' = [worker |-> detectTempo(audioData, input.sampleRate),
                  fallback |-> AudioAnalyzer_detectTempo(audioData, input.sampleRate)]
    /\ UNCHANGED <<appVars, input>>

NextTempo == ApplyDetectTempo

SpecTempo == InitTempo /\ [][NextTempo]_vars

\* SpecKey: the chromagram builders and the key estimators, on signals of up to
\* MaxChromaBlocks blocks of 2048 samples, with or without one more sample, whose
\* chunks are silent or hold one of two tones.
MaxChromaBlocks == 4
Silence == [pc \in 1..12 |-> 0]
\* C loudest, then E, then G
ToneC == [pc \in 1..12 |-> CASE pc = 1 -> 3 [] pc = 5 -> 2 [] pc = 8 -> 1 [] OTHER -> 0]
\* D loudest, then F, then A
ToneDm == [pc \in 1..12 |-> CASE pc = 3 -> 3 [] pc = 6 -> 2 [] pc = 10 -> 1 [] OTHER -> 0]
ChunkEnergies == {Silence, ToneC, ToneDm}
ChromaRates == {1024, 2048, 44100}
ChromaInputs ==
    {[sampleRate |-> r, length |-> k * 2048 + t, spectrum |-> s] :
        r \in ChromaRates, k \in 0..MaxChromaBlocks, t \in {0, 1},
        s \in [1..MaxChromaBlocks -> ChunkEnergies]}

InitKey == Untouched /\ input \in ChromaInputs /\ output = Null

ApplyCalculateChromagram ==
    /\ output' = [of |-> "chromagram",
                  fast |-> calculateChromagramFast(input, input.sampleRate),
                  worker |-> calculateChromagram(input, input.sampleRate),
                  fallback |-> AudioAnalyzer_calculateChromagram(input, input.sampleRate)]
    /\ UNCHANGED <<appVars, input>>

ApplyDetectKey ==
    /\ output' = [of |-> "key",
                  worker |-> detectKey(input, input.sampleRate),
                  fallback |-> AudioAnalyzer_detectKey(input, input.sampleRate)]
    /\ UNCHANGED <<appVars, input>>

NextKey ==
    \/ ApplyCalculateChromagram
    \/ ApplyDetectKey

SpecKey == InitKey /\ [][NextKey]_vars

\* SpecChord: the chord identifiers, on the chromagrams whose values are 0 and 1,
\* on those with three different energies at three pitch classes, and on the
\* chromagram of twelve NaN that the unguarded builders return.
Graded(a, b, c) ==
    [pc \in 1..12 |-> CASE pc = a + 1 -> Num(1)
                        [] pc = b + 1 -> Frac(1, 2)
                        [] pc = c + 1 -> Frac(1, 4)
                        [] OTHER -> Num(0)]
ChordInputs ==
    {[pc \in 1..12 |-> Num(f[pc])] : f \in [1..12 -> {0, 1}]}
    \cup {Graded(t[1], t[2], t[3]) :
             t \in {u \in (0..11) \X (0..11) \X (0..11) :
                        u[1] # u[2] /\ u[1] # u[3] /\ u[2] # u[3]}}
    \cup {[pc \in 1..12 |-> NotANumber]}

InitChord == Untouched /\ input \in ChordInputs /\ output = Null

ApplyIdentifyChord ==
    /\ output' = [of |-> "chord",
                  worker |-> identifyChord(input),
                  fallback |-> AudioAnalyzer_identifyChord(input)]
    /\ UNCHANGED <<appVars, input>>

NextChord == ApplyIdentifyChord

SpecChord == InitChord /\ [][NextChord]_vars

\* SpecChords: chord detection on both paths.  At 200 and 400 Hz, on signals of up
\* to MaxChordBlocks blocks of 100 samples with or without half a block more, no
\* window of AudioAnalyzer reaches one analysis frame; at 2049 Hz, on sounding
\* signals of one or two of its windows, each window has one frame, silent or
\* holding one of the two tones.
MaxChordBlocks == 6
ChordsInputs ==
    {[sampleRate |-> r, blockLength |-> 100, pattern |-> p, tail |-> t,
      spectrum |-> <<>>] :
        r \in {200, 400}, p \in Patterns({0, -100}, MaxChordBlocks), t \in {0, 50}}
    \cup
    {[sampleRate |-> 2049, blockLength |-> 4098, pattern |-> [k \in 1..n |-> -100],
      tail |-> 0, spectrum |-> s] :
        n \in 1..2, s \in [1..2 -> {<<e>> : e \in ChunkEnergies}]}

InitChords == Untouched /\ input \in ChordsInputs /\ output = Null

ApplyDetectChords ==
    /\ LET audioData == Array(Signal(input)) IN
       output' = [of |-> "chords",
                  worker |-> detectChords(audioData, input.sampleRate),
                  fallback |-> AudioAnalyzer_detectChords(
                                   [length |-> Len(audioData),
                                    spectrum |-> input.spectrum],
                                   input.sampleRate)]
    /\ UNCHANGED <<appVars, input>>

NextChords == ApplyDetectChords

SpecChords == InitChords /\ [][NextChords]_vars

----------------------------------------------------------------------------
(* Specification of mixLayers as a function: layers, volumes and mute flags *)
(* are drawn, one of each per layer, and mixed as they are, with the last   *)
(* layer moved to the front, and with the first layer alone.                *)

MaxMixLayers == 3

Quiet == << <<2, 2>> >>                         \* mono, 2 frames, barely audible
Full  == << <<One>> >>                          \* mono, 1 frame at full scale
Sharp == << <<-One, 2>> >>                      \* mono, 2 frames
Wide  == << <<One, -One>>, <<2, One>> >>        \* stereo, 2 frames
MixBuffers == {Quiet, Full, Sharp, Wide}
MixVolumes == {0, 50, 100}

MixInputs ==
    UNION {[layers : [1..n -> MixBuffers], layerVolumes : [1..n -> MixVolumes],
            layerMuted : [1..n -> BOOLEAN]] : n \in 1..MaxMixLayers}

\* [A, B, C] as [C, A, B]
Rotate(s) == <<s[Len(s)]>> \o SubSeq(s, 1, Len(s) - 1)

InitMix == Untouched /\ input \in MixInputs /\ output = Null

ApplyMixLayers ==
    /\ output' = [of |-> "mix",
                  mixed |-> mixLayers(input.layers, input.layerVolumes,
                                      input.layerMuted),
                  reordered |-> mixLayers(Rotate(input.layers),
                                          Rotate(input.layerVolumes),
                                          Rotate(input.layerMuted)),
                  alone |-> mixLayers(SubSeq(input.layers, 1, 1),
                                      SubSeq(input.layerVolumes, 1, 1),
                                      SubSeq(input.layerMuted, 1, 1))]
    /\ UNCHANGED <<appVars, input>>

NextMix == ApplyMixLayers

SpecMix == InitMix /\ [][NextMix]_vars

----------------------------------------------------------------------------
(***************************************************************************)
(* Export: audioBufferToBlob of AudioPlayer, which loadAudioToWaveform is   *)
(* given the composite for.  The blob is the sequence of its bytes; the    *)
(* buffer is the record of its sample rate and its channels.               *)
(***************************************************************************)

\* the number a sample is
SampleValue(n) == Frac(n, One)

\* the characters writeString writes, as string.charCodeAt gives them
RIFF == <<82, 73, 70, 70>>
WAVE == <<87, 65, 86, 69>>
Fmt  == <<102, 109, 116, 32>>
Data == <<100, 97, 116, 97>>

\* view.setUint32(offset, value, true) and view.setUint16(offset, value, true)
setUint32(value) ==
    <<value % 256, (value \div 256) % 256, (value \div 65536) % 256,
      (value \div 16777216) % 256>>

setUint16(value) == <<value % 256, (value \div 256) % 256>>

\* ToInt16 of a number: NaN and the infinities are 0, the fraction is dropped,
\* the rest is taken modulo 2^16
ToInt16(x) ==
    IF ~IsFinite(x) THEN 0
    ELSE LET truncated == IF x[1] < 0 THEN -((-x[1]) \div x[2]) ELSE x[1] \div x[2]
         IN  truncated % 65536

\* Faulty variant: the high byte first
setInt16BigEndian(x) == <<ToInt16(x) \div 256, ToInt16(x) % 256>>

\* view.setInt16(offset, x, true)
setInt16(x) == <<ToInt16(x) % 256, ToInt16(x) \div 256>>

\* Faulty variant: one scale for both signs
ScaledAlike(s) == Times(MathMax(Num(-1), MathMin(Num(1), s)), Num(32768))

\* sample < 0 ? sample * 0x8000 : sample * 0x7FFF of the clamped sample
Scaled(s) ==
    LET sample == MathMax(Num(-1), MathMin(Num(1), s)) IN
    IF Greater(Num(0), sample) THEN Times(sample, Num(32768))
    ELSE Times(sample, Num(32767))

\* the inner loop: frame i of the channels from channel on
RECURSIVE WriteFrame(_, _, _)
WriteFrame(channels, i, channel) ==
    IF channel > Len(channels) THEN <<>>
    ELSE setInt16(Scaled(SampleValue(channels[channel][i])))
             \o WriteFrame(channels, i, channel + 1)

\* the outer loop: the frames from i on
RECURSIVE WriteFrames(_, _)
WriteFrames(channels, i) ==
    IF i > length(channels) THEN <<>>
    ELSE WriteFrame(channels, i, 1) \o WriteFrames(channels, i + 1)

audioBufferToBlob(audioBuffer) ==
    LET channels == audioBuffer.channels
        dataLength == length(channels) * numberOfChannels(channels) * 2
        sampleRate == audioBuffer.sampleRate
    IN  RIFF \o setUint32(36 + dataLength) \o WAVE \o Fmt \o setUint32(16)
        \o setUint16(1) \o setUint16(numberOfChannels(channels))
        \o setUint32(sampleRate)
        \o setUint32(sampleRate * numberOfChannels(channels) * 2)
        \o setUint16(numberOfChannels(channels) * 2) \o setUint16(16)
        \o Data \o setUint32(dataLength)
        \o WriteFrames(channels, 1)

\* What a reader of the format finds at a byte offset
U16At(bytes, offset) == bytes[offset + 1] + 256 * bytes[offset + 2]
U32At(bytes, offset) == U16At(bytes, offset) + 65536 * U16At(bytes, offset + 2)
S16At(bytes, offset) ==
    IF U16At(bytes, offset) >= 32768 THEN U16At(bytes, offset) - 65536
    ELSE U16At(bytes, offset)

\* the sample a decoder gives for channel c of frame i: the stored integer / 32768
Decoded(bytes, c, i) ==
    Frac(S16At(bytes, 44 + 2 * ((i - 1) * U16At(bytes, 22) + (c - 1))), 32768)

\* SpecWav: layers, volumes and mute flags are drawn, mixed, and the composite is
\* exported at a sample rate.
MaxWavLayers == 2

Half == << <<One \div 2, -(One \div 4)>> >>                         \* mono
Loud == << <<One, -One>>, <<-One, 3 * (One \div 4)>> >>             \* stereo
Soft == << <<One \div 4>> >>                                        \* mono, 1 frame
WavBuffers == {Half, Loud, Soft}
WavRates == {8000, 44100, 48000}

WavInputs ==
    UNION {[sampleRate : WavRates, layers : [1..n -> WavBuffers],
            layerVolumes : [1..n -> {50, 100}], layerMuted : [1..n -> BOOLEAN]] :
           n \in 1..MaxWavLayers}

InitWav == Untouched /\ input \in WavInputs /\ output = Null

ApplyAudioBufferToBlob ==
    /\ LET composite == Array(mixLayers(input.layers, input.layerVolumes,
                                        input.layerMuted))
       IN  output' = [of |-> "wav",
                      composite |-> composite,
                      bytes |-> audioBufferToBlob([sampleRate |-> input.sampleRate,
                                                   channels |-> composite])]
    /\ UNCHANGED <<appVars, input>>

NextWav == ApplyAudioBufferToBlob

SpecWav == InitWav /\ [][NextWav]_vars

----------------------------------------------------------------------------
(***************************************************************************)
(* The arrays behind the composition.  this.layers, this.layerVolumes and  *)
(* this.layerMuted are references to arrays that push() and [i] = change   *)
(* in place, and a snapshot holds three references of its own.  heap has   *)
(* the array each reference stands for (arrays), the three references of   *)
(* the application and the two stacks of snapshots.  References are named  *)
(* in the order the application reaches them; what it cannot reach is      *)
(* gone.                                                                   *)
(***************************************************************************)

\* the references of a snapshot, or of the application
RefsOf(state) == <<state.layers, state.layerVolumes, state.layerMuted>>

RECURSIVE RefsOfAll(_)
RefsOfAll(stack) ==
    IF stack = <<>> THEN <<>> ELSE RefsOf(Head(stack)) \o RefsOfAll(Tail(stack))

Reached(h) == RefsOf(h) \o RefsOfAll(h.undoStack) \o RefsOfAll(h.redoStack)

\* the name a reference gets: its place among the references reached
NameOf(reached, ref) ==
    LET first == CHOOSE k \in 1..Len(reached) :
                     reached[k] = ref /\ \A j \in 1..(k - 1) : reached[j] # ref
    IN  Cardinality({reached[j] : j \in 1..(first - 1)}) + 1

Renamed(name, state) ==
    [layers |-> name[state.layers],
     layerVolumes |-> name[state.layerVolumes],
     layerMuted |-> name[state.layerMuted]]

Collected(h) ==
    LET reached == Reached(h)
        refs == {reached[j] : j \in 1..Len(reached)}
        name == [ref \in refs |-> NameOf(reached, ref)]
    IN  [arrays |-> [n \in Refs |->
                        IF \E ref \in refs : name[ref] = n
                        THEN h.arrays[CHOOSE ref \in refs : name[ref] = n]
                        ELSE <<>>],
         layers |-> name[h.layers],
         layerVolumes |-> name[h.layerVolumes],
         layerMuted |-> name[h.layerMuted],
         undoStack |-> [k \in 1..Len(h.undoStack) |-> Renamed(name, h.undoStack[k])],
         redoStack |-> [k \in 1..Len(h.redoStack) |-> Renamed(name, h.redoStack[k])]]

\* the k-th reference that nothing reaches: a new array
New(h, k) ==
    LET reached == {Reached(h)[j] : j \in 1..Len(Reached(h))}
        free == Refs \ reached
    IN  CHOOSE ref \in free : Cardinality({r \in free : r < ref}) = k - 1

\* this.layers = [..]; this.layerVolumes = [..]; this.layerMuted = [..];
\* this.undoStack = []; this.redoStack = []
Assigned(h, ls, vols, muted) ==
    [arrays |-> [h.arrays EXCEPT ![New(h, 1)] = ls, ![New(h, 2)] = vols,
                                 ![New(h, 3)] = muted],
     layers |-> New(h, 1), layerVolumes |-> New(h, 2), layerMuted |-> New(h, 3),
     undoStack |-> <<>>, redoStack |-> <<>>]

\* Faulty variant: the snapshot holds the application's own arrays
Shared(h) ==
    [arrays |-> h.arrays,
     snapshot |-> [layers |-> h.layers, layerVolumes |-> h.layerVolumes,
                   layerMuted |-> h.layerMuted]]

\* { layers: [...this.layers], layerVolumes: [...this.layerVolumes],
\*   layerMuted: [...this.layerMuted] }: three new arrays and the snapshot of them
Spread(h) ==
    [arrays |-> [h.arrays EXCEPT ![New(h, 1)] = h.arrays[h.layers],
                                 ![New(h, 2)] = h.arrays[h.layerVolumes],
                                 ![New(h, 3)] = h.arrays[h.layerMuted]],
     snapshot |-> [layers |-> New(h, 1), layerVolumes |-> New(h, 2),
                   layerMuted |-> New(h, 3)]]

\* push, then shift() when over MaxHistory
Pushed(stack, snapshot) ==
    IF Len(stack) + 1 > MaxHistory THEN Tail(Append(stack, snapshot))
    ELSE Append(stack, snapshot)

Heap_saveStateToUndo(h) ==
    [h EXCEPT !.arrays = Spread(h).arrays,
              !.undoStack = Pushed(h.undoStack, Spread(h).snapshot)]

Heap_saveStateToRedo(h) ==
    [h EXCEPT !.arrays = Spread(h).arrays,
              !.redoStack = Pushed(h.redoStack, Spread(h).snapshot)]

\* the overdub's complete callback: saveStateToUndo, three push(), redoStack = []
Heap_OverdubComplete(h, buf) ==
    LET saved == Heap_saveStateToUndo(h) IN
    [saved EXCEPT !.arrays = [saved.arrays EXCEPT
                                 ![h.layers] = Append(@, buf),
                                 ![h.layerVolumes] = Append(@, 100),
                                 ![h.layerMuted] = Append(@, FALSE)],
                  !.redoStack = <<>>]

\* handleUndo with a snapshot to go back to
Heap_HandleUndo(h) ==
    LET saved == Heap_saveStateToRedo(h)
        previousState == Last(saved.undoStack)
    IN  [saved EXCEPT !.undoStack = Front(saved.undoStack),
                      !.layers = previousState.layers,
                      !.layerVolumes = previousState.layerVolumes,
                      !.layerMuted = previousState.layerMuted]

\* this.layerVolumes[layerIndex] = volume
Heap_HandleLayerVolumeChange(h, index, volume) ==
    [h EXCEPT !.arrays = [h.arrays EXCEPT
                             ![h.layerVolumes] = SetAt(@, index, volume, Hole)]]

\* this.layerMuted[layerIndex] = !this.layerMuted[layerIndex]
Heap_HandleLayerMuteToggle(h, index) ==
    [h EXCEPT !.arrays = [h.arrays EXCEPT
                             ![h.layerMuted] = SetAt(@, index, ~MutedAt(@, index), FALSE)]]

\* SpecSnapshots: the handlers as they act on the arrays.  A file is loaded or the
\* loop cleared at any moment, overdubs complete while fewer than MaxSnapLayers
\* layers exist, undo runs when there is a snapshot, sliders and mute buttons of
\* the current layers are used.
valVars == <<compVars, recVars, uiVars, anaVars, edits, fnVars, reqVars, audioVars>>

\* handleFileLoad and the record callback (one layer), handleClear (none)
AssignLayers(ls, vols, muted) ==
    /\ heap' = Collected(Assigned(heap, ls, vols, muted))
    /\ UNCHANGED valVars

PushLayer ==
    /\ Len(heap.arrays[heap.layers]) \in 1..(MaxSnapLayers - 1)
    /\ heap' = Collected(Heap_OverdubComplete(heap, B2))
    /\ UNCHANGED valVars

RestoreSnapshot ==
    /\ heap.undoStack # <<>>
    /\ heap' = Collected(Heap_HandleUndo(heap))
    /\ UNCHANGED valVars

WriteVolume(index, volume) ==
    /\ index \in 1..Len(heap.arrays[heap.layers])
    /\ heap' = Collected(Heap_HandleLayerVolumeChange(heap, index, volume))
    /\ UNCHANGED valVars

WriteMuted(index) ==
    /\ index \in 1..Len(heap.arrays[heap.layers])
    /\ heap' = Collected(Heap_HandleLayerMuteToggle(heap, index))
    /\ UNCHANGED valVars

NextSnapshots ==
    \/ AssignLayers(<<B1>>, <<100>>, <<FALSE>>)
    \/ AssignLayers(<<>>, <<>>, <<>>)
    \/ PushLayer
    \/ RestoreSnapshot
    \/ \E index \in 1..MaxSnapLayers, volume \in {50, 100} : WriteVolume(index, volume)
    \/ \E index \in 1..MaxSnapLayers : WriteMuted(index)

SpecSnapshots == InitRequests /\ [][NextSnapshots]_vars

----------------------------------------------------------------------------
(* Properties *)

\* the steps the properties are about
OverdubStep == \E buf \in Buffers : OverdubComplete(buf)
RecordStep == \E buf \in Buffers : RecordComplete(buf)
LoadStep == \E buf \in Buffers : HandleFileLoad(buf)
VolumeStep ==
    \E index \in 1..renderedLayers, volume \in Volumes :
        HandleLayerVolumeChange(index, volume)
MuteStep == \E index \in 1..renderedLayers : HandleLayerMuteToggle(index)
SuccessfulUndo == HandleUndo /\ undoStack # <<>>

\* the mix of section 4.7 of the specification: every layer that is not muted,
\* scaled by its volume, whatever the number of layers
Mix(ls, vols, muted) == IF Len(ls) = 0 THEN Null ELSE MixSum(ls, vols, muted)

\* C1: in every settled state the cached composite is the mix of the current layers
\* under the current volumes and mute flags, also when there is exactly one layer
\* and its volume is below 1 or it is muted.
C1_CompositeIsMix ==
    Settled => loopAudioBuffer = Mix(layers, layerVolumes, layerMuted)

\* C2: every action that changes the composite, other than undo and redo (overdub
\* completion, volume change, mute toggle), pushes the snapshot of the state before
\* the change onto the undo stack and leaves the redo stack empty.
C2_MutationsAreBracketed ==
    [][(OverdubStep \/ VolumeStep \/ MuteStep) =>
           /\ undoStack' = saveStateToUndo
           /\ redoStack' = <<>>]_vars

\* an overdub was the last thing that happened to the composition: the top of the
\* undo stack is the state before it
JustOverdubbed ==
    /\ Len(layers) >= 2
    /\ undoStack # <<>>
    /\ redoStack = <<>>
    /\ Last(undoStack) =
           Snapshot(Front(layers), Front(layerVolumes), Front(layerMuted))
    /\ Last(layerVolumes) = 100 /\ Last(layerMuted) = FALSE

\* C3: from a state with at least one layer, an overdub completion saves that state,
\* and the undo that follows it restores layers, volumes and mute flags to exactly
\* that state, pushes the state it leaves onto the redo stack and remixes.
C3_UndoRevertsOverdub ==
    [][/\ (OverdubStep /\ Len(layers) >= 1) =>
              /\ layers' = Append(layers, Last(layers'))
              /\ layerVolumes' = Append(layerVolumes, 100)
              /\ layerMuted' = Append(layerMuted, FALSE)
              /\ JustOverdubbed'
       /\ (SuccessfulUndo /\ JustOverdubbed) =>
              /\ layers' = Front(layers)
              /\ layerVolumes' = Front(layerVolumes)
              /\ layerMuted' = Front(layerMuted)
              /\ redoStack' = <<Snapshot(layers, layerVolumes, layerMuted)>>
              /\ loopAudioBuffer' = mixLayers(layers', layerVolumes', layerMuted')]_vars

\* an undo has just reverted an overdub made on a layer whose slider had been moved
C3_Witness ==
    /\ statusText = "Undone - Last layer removed"
    /\ Len(redoStack) = 1
    /\ Last(redoStack).layers = Append(layers, Last(Last(redoStack).layers))
    /\ Last(redoStack).layerVolumes = Append(layerVolumes, 100)
    /\ \E k \in 1..Len(layers) : layerVolumes[k] # 100 \/ layerMuted[k]

\* the step a redo would be: the top of the redo stack becomes the current state,
\* the state it replaces goes onto the undo stack; no recording takes part in it
RedoStep ==
    /\ Next
    /\ layers' = Last(redoStack).layers
    /\ layerVolumes' = Last(redoStack).layerVolumes
    /\ layerMuted' = Last(redoStack).layerMuted
    /\ redoStack' = Front(redoStack)
    /\ undoStack' = Append(undoStack, Snapshot(layers, layerVolumes, layerMuted))
    /\ UNCHANGED recVars

\* C4: redo is supported as the mirror of undo: whenever an undo has left an entry
\* on the redo stack, the step that consumes it, restores the undone state and
\* pushes the current one onto the undo stack can be taken.
C4_RedoMirrorsUndo ==
    (Settled /\ redoStack # <<>>) => ENABLED RedoStep

\* C5: neither stack ever holds more than ten entries, and a push onto a full stack
\* discards the oldest entry and keeps the ten most recent in order.
C5_HistoryIsBounded ==
    [][/\ Len(undoStack') <= MaxHistory
       /\ Len(redoStack') <= MaxHistory
       /\ (OverdubStep /\ Len(undoStack) = MaxHistory) =>
              undoStack' = Append(Tail(undoStack),
                                  Snapshot(layers, layerVolumes, layerMuted))
       /\ (SuccessfulUndo /\ Len(redoStack) = MaxHistory) =>
              redoStack' = Append(Tail(redoStack),
                                  Snapshot(layers, layerVolumes, layerMuted))]_vars

\* the undo stack is full and its first entry, the snapshot of the base layer, is gone
C5_Witness ==
    /\ Len(undoStack) = MaxHistory
    /\ Len(Head(undoStack).layers) = 2
    /\ Len(layers) = MaxHistory + 2

\* C6: undo on an empty undo stack reports 'Nothing to undo' and changes nothing else.
C6_UndoOnEmptyStack ==
    [][(HandleUndo /\ undoStack = <<>>) =>
           /\ statusText' = "Nothing to undo"
           /\ UNCHANGED <<compVars, recVars, anaVars, undoBtnDisabled,
                          overdubBtnDisabled, clearBtnDisabled, renderedLayers>>]_vars

\* the button, which the page had left enabled, was clicked on an empty stack while
\* the base loop was being recorded; the report is still on the screen
C6_Witness ==
    /\ statusText = "Nothing to undo"
    /\ undoStack = <<>>
    /\ ~undoBtnDisabled
    /\ isRecording

\* C7: undo never removes the base layer: whatever the interleaving of record, load,
\* overdub start and completion, clear and undo, an undo that restores a state
\* restores at least one layer, and the composite is not null after it.
C7_UndoKeepsBaseLayer ==
    [][SuccessfulUndo => (Len(layers') >= 1 /\ loopAudioBuffer' # Null)]_vars

\* an undo has restored a state although the loop was cleared while an overdub was
\* being recorded, which left a snapshot of no layers at the bottom of the stack
C7_Witness ==
    /\ statusText = "Undone - Last layer removed"
    /\ undoStack # <<>>
    /\ Head(undoStack).layers = <<>>
    /\ Len(layers) >= 1

\* C8: clear empties the layers, the volumes, the mute flags and both stacks and
\* leaves no composite; a completed recording and a loaded file empty both stacks.
C8_ClearResetsEverything ==
    [][/\ HandleClear =>
              /\ layers' = <<>> /\ layerVolumes' = <<>> /\ layerMuted' = <<>>
              /\ undoStack' = <<>> /\ redoStack' = <<>>
              /\ loopAudioBuffer' = Null
       /\ (RecordStep \/ LoadStep) =>
              (undoStack' = <<>> /\ redoStack' = <<>>)]_vars

\* the loop is cleared after layers were recorded and a slider was moved
C8_Witness ==
    /\ layers = <<>> /\ layerVolumes = <<>> /\ layerMuted = <<>>
    /\ undoStack = <<>> /\ redoStack = <<>>
    /\ loopAudioBuffer = Null
    /\ statusText = "Ready to record!"
    /\ stream /\ edits > 0

\* what the fallback path shows for a request of the given type once it is answered
Delivered(type) ==
    CASE type = "tempo" -> tempoValue' \in {"BPM", "Error"}
      [] type = "key" -> keyValue' \in {"key", "Error"}
      [] OTHER -> unhandled' = unhandled

\* C9: every analysis request gets exactly one response, a success of the kind of
\* the request or an error, whatever the interleaving of the requests in flight:
\* the worker posts one message for the request it takes, no message is posted
\* otherwise, and a fallback timer that fires delivers one result or one error.
C9_OneResponsePerRequest ==
    [][/\ Len(workerQueue') < Len(workerQueue) =>
              /\ workerQueue' = Tail(workerQueue)
              /\ \E type \in {Head(workerQueue), "error"} :
                     mainQueue' = Append(mainQueue, type)
       /\ Len(mainQueue') > Len(mainQueue) => Len(workerQueue') < Len(workerQueue)
       /\ Len(timers') < Len(timers) =>
              \E j \in 1..Len(timers) :
                  timers' = RemoveAt(timers, j) /\ Delivered(timers[j])]_vars

\* C10: a failure inside an analysis, on the worker path and on the fallback path
\* alike, reaches the caller as an error outcome and is never an exception that
\* nothing catches.
C10_FailuresAreDelivered == "detectChords" \notin unhandled

----------------------------------------------------------------------------
(* Properties of the analysis functions *)

\* the number of energy values each implementation computes for the input
WorkerEnvelopeLength(in) ==
    (Min(Len(Signal(in)), 10 * in.sampleRate) + 2047) \div 2048
FallbackEnvelopeLength(in) == (Len(Signal(in)) + 511) \div 512

\* C13: for every input buffer with sampleRate > 0, the empty, the silent and the
\* very short ones included, both detectTempo implementations return an integer
\* between 60 and 180, and applied to the same input again they return the same
\* value.
C13_TempoInRangeAndRepeatable ==
    [][output' # Null =>
           /\ IsInteger(output'.worker) /\ output'.worker[1] \in 60..180
           /\ IsInteger(output'.fallback) /\ output'.fallback[1] \in 60..180
           /\ (output # Null /\ input' = input) => output' = output]_vars

\* a signal was analysed whose tempo neither implementation had to clamp
C13_Witness ==
    /\ output # Null
    /\ output.worker[1] \in 61..179 /\ output.fallback[1] \in 61..179

\* C14: when the energy envelope has fewer than minLag + 1 values, so that no lag
\* has a sample pair, the estimator returns a number all the same, and that number
\* is the same (180) whatever the envelope holds.
C14_DegenerateEnvelopeFallback ==
    output # Null =>
        /\ WorkerEnvelopeLength(input) < ((60 * input.sampleRate) \div (2048 * 180)) + 1
               => output.worker = <<180, 1>>
        /\ FallbackEnvelopeLength(input) < ((60 * input.sampleRate) \div (512 * 180)) + 1
               => output.fallback = <<180, 1>>

\* a signal that is not silent and too short for either implementation was analysed
C14_Witness ==
    /\ output # Null
    /\ \E k \in 1..Len(input.pattern) : input.pattern[k] # 0
    /\ WorkerEnvelopeLength(input) < ((60 * input.sampleRate) \div (2048 * 180)) + 1
    /\ FallbackEnvelopeLength(input) < ((60 * input.sampleRate) \div (512 * 180)) + 1
    /\ FallbackEnvelopeLength(input) > 1

\* what the chunks a builder takes add up to, for a builder of the given frame
\* size and hop, is nothing
NoEnergy(audioData, n, fftSize, hopSize) ==
    \A k \in 1..ChunkCount(n, fftSize, hopSize) : audioData.spectrum[k] = Silence

\* twelve numbers, none negative, the largest exactly 1
IsNormalized(chromagram) ==
    /\ Len(chromagram) = 12
    /\ \A pc \in 1..12 :
           /\ IsFinite(chromagram[pc])
           /\ ~Greater(Num(0), chromagram[pc]) /\ ~Greater(chromagram[pc], Num(1))
    /\ \E pc \in 1..12 : chromagram[pc] = Num(1)

\* C15: every chromagram builder returns twelve values, none negative, whose
\* largest is exactly 1, except that for input contributing no energy (silent, or
\* shorter than one analysis frame) it returns twelve zeros: it never divides by
\* zero.
C15_ChromagramIsNormalized ==
    (output # Null /\ output.of = "chromagram") =>
        /\ IF NoEnergy(input, Min(input.length, 2 * input.sampleRate), 2048, 2048)
           THEN output.fast = [pc \in 1..12 |-> Num(0)]
           ELSE IsNormalized(output.fast)
        /\ IF NoEnergy(input, input.length, 4096, 2048)
           THEN /\ output.worker = [pc \in 1..12 |-> Num(0)]
                /\ output.fallback = [pc \in 1..12 |-> Num(0)]
           ELSE IsNormalized(output.worker) /\ IsNormalized(output.fallback)

KeyLabels == {note \o " " \o mode :
                 note \in {"C", "C#", "D", "D#", "E", "F", "F#", "G", "G#", "A", "A#", "B"},
                 mode \in {"Major", "Minor"}}

\* C16: for every input, also a silent or too short one whose chromagram is all
\* zeros or not a number, detectKey returns one of the 24 labels made of a note
\* name and Major or Minor.
C16_KeyIsOneOf24Labels ==
    (output # Null /\ output.of = "key") =>
        output.worker \in KeyLabels /\ output.fallback \in KeyLabels

\* the key of a signal shorter than one frame was asked for: the worker's
\* chromagram is all zeros, AudioAnalyzer's is twelve times 0/0
C16_Witness ==
    /\ output # Null /\ output.of = "key"
    /\ input.length = 2048
    /\ calculateChromagramFast(input, input.sampleRate) = [pc \in 1..12 |-> Num(0)]
    /\ AudioAnalyzer_calculateChromagram(input, input.sampleRate)
           = [pc \in 1..12 |-> NotANumber]
    /\ output.worker = "C Minor" /\ output.fallback = "C Minor"

\* the three pitch classes of highest energy: those that fewer than three others
\* precede, a class preceding another by higher energy or, at equal energy, by
\* lower number
Loudest3(chromagram) ==
    {p \in 0..11 :
        Cardinality({q \in 0..11 :
            \/ Greater(chromagram[q + 1], chromagram[p + 1])
            \/ ~Greater(chromagram[p + 1], chromagram[q + 1]) /\ q < p}) < 3}

\* the label the templates give to a set of pitch classes read from its lowest
TemplateLabel(classes) ==
    LET root == CHOOSE p \in classes : \A q \in classes : p <= q
        intervals == {(p - root) % 12 : p \in classes}
        name == Notes[root + 1]
    IN  CASE {0, 4, 7} \subseteq intervals -> name
          [] {0, 3, 7} \subseteq intervals -> name \o "m"
          [] {0, 4, 10} \subseteq intervals -> name \o "7"
          [] {0, 4, 11} \subseteq intervals -> name \o "maj7"
          [] {0, 3, 10} \subseteq intervals -> name \o "m7"
          [] OTHER -> name

ChordForms ==
    {note \o suffix :
        note \in {"C", "C#", "D", "D#", "E", "F", "F#", "G", "G#", "A", "A#", "B"},
        suffix \in {"", "m", "7", "maj7", "m7"}}

\* C17: identifyChord takes the three pitch classes of highest energy, the lowest
\* of them as root, the intervals from the root mod 12, and returns the label of
\* the first template that matches, in the order {0,4,7} root, {0,3,7} root m,
\* {0,4,10} root 7, {0,4,11} root maj7, {0,3,10} root m7, else the bare root; the
\* result is always of one of these forms.
C17_IdentifyChordFollowsTemplates ==
    (output # Null /\ output.of = "chord") =>
        /\ output.worker = TemplateLabel(Loudest3(input))
        /\ output.fallback = TemplateLabel(Loudest3(input))
        /\ output.worker \in ChordForms /\ output.fallback \in ChordForms

\* a seventh chord above a root that is not the loudest class was identified
C17_Witness ==
    /\ output # Null /\ output.of = "chord"
    /\ input = Graded(4, 10, 0)
    /\ output.worker = "C7" /\ output.fallback = "C7"

\* energy at the three pitch classes of the triad on root and nowhere else
IsTriad(chromagram, root, third) ==
    \A p \in 0..11 :
        Greater(chromagram[p + 1], Num(0))
            <=> p \in {root, (root + third) % 12, (root + 7) % 12}

\* C18 as stated: for every root r in 0..11 a chromagram with its energy at the
\* major triad {r, r+4, r+7} mod 12 is labelled with the name of r, and one with
\* its energy at the minor triad {r, r+3, r+7} mod 12 with the name of r and m.
C18_TriadOnEveryRoot ==
    (output # Null /\ output.of = "chord") =>
        \A r \in 0..11 :
            /\ IsTriad(input, r, 4) =>
                   output.worker = Notes[r + 1] /\ output.fallback = Notes[r + 1]
            /\ IsTriad(input, r, 3) =>
                   /\ output.worker = Notes[r + 1] \o "m"
                   /\ output.fallback = Notes[r + 1] \o "m"

\* C18, amended: the same for the roots r in 0..4, whose triads do not wrap past
\* pitch class 11; of a triad that wraps, the lowest pitch class is taken as root.
C18_TriadOnRootsBelowWrap ==
    (output # Null /\ output.of = "chord") =>
        \A r \in 0..4 :
            /\ IsTriad(input, r, 4) =>
                   output.worker = Notes[r + 1] /\ output.fallback = Notes[r + 1]
            /\ IsTriad(input, r, 3) =>
                   /\ output.worker = Notes[r + 1] \o "m"
                   /\ output.fallback = Notes[r + 1] \o "m"

\* the minor triad on E, its fifth the loudest, was identified
C18_Witness ==
    /\ output # Null /\ output.of = "chord"
    /\ input = Graded(11, 4, 7) /\ IsTriad(input, 4, 3)
    /\ output.worker = "Em" /\ output.fallback = "Em"

\* the number of samples of the signal analysed
SignalLength(in) == Len(in.pattern) * in.blockLength + in.tail

\* the start offsets of the windows of a signal of n samples
WindowStarts(n, windowSize) == {k * windowSize : k \in 0..(n \div windowSize)}

\* the windows at least half the nominal length long
FullEnough(n, windowSize) ==
    {start \in WindowStarts(n, windowSize) :
        start < n /\ 2 * Min(windowSize, n - start) >= windowSize}

\* strictly increasing timeInSeconds, each the start of a window in seconds, and
\* no two adjacent events with the same label
IsTimeline(chords, n, windowSize, sampleRate) ==
    /\ \A i \in 1..Len(chords) :
           /\ "timeInSeconds" \in DOMAIN chords[i]
           /\ \E start \in WindowStarts(n, windowSize) :
                  chords[i].timeInSeconds = Frac(start, sampleRate)
    /\ \A i \in 1..(Len(chords) - 1) :
           /\ Greater(chords[i + 1].timeInSeconds, chords[i].timeInSeconds)
           /\ chords[i + 1].chord # chords[i].chord

\* C19: every chord timeline, of the worker path and of the fallback path, has
\* strictly increasing timeSeconds, each the start offset of its window in
\* seconds, and no two adjacent events with the same label.
C19_TimelineIsOrderedAndCollapsed ==
    (output # Null /\ output.of = "chords") =>
        /\ IsTimeline(output.worker, SignalLength(input),
                      input.sampleRate, input.sampleRate)
        /\ IsTimeline(output.fallback, SignalLength(input),
                      2 * input.sampleRate, input.sampleRate)

\* never empty; the default event alone when no window is classified; no event
\* for a window shorter than half the nominal length
DropsShortTail(chords, n, windowSize, sampleRate) ==
    /\ Len(chords) >= 1
    /\ Len(chords) <= Max(1, Cardinality(FullEnough(n, windowSize)))
    /\ FullEnough(n, windowSize) = {} =>
           /\ Len(chords) = 1
           /\ chords[1].chord = "C"
           /\ \/ "timeInSeconds" \notin DOMAIN chords[1]
              \/ chords[1].timeInSeconds = Num(0)
    /\ \A i \in 1..Len(chords) :
           "timeInSeconds" \in DOMAIN chords[i] =>
               \/ FullEnough(n, windowSize) = {}
               \/ \E start \in FullEnough(n, windowSize) :
                      chords[i].timeInSeconds = Frac(start, sampleRate)

\* C20: chord detection never returns an empty timeline: when no window is
\* classified (empty input, or input shorter than half a window) it returns
\* exactly one event at time 0 with the default label, and a trailing window
\* shorter than half the nominal window length never produces an event.
C20_TimelineNeverEmpty ==
    (output # Null /\ output.of = "chords") =>
        /\ DropsShortTail(output.worker, SignalLength(input),
                          input.sampleRate, input.sampleRate)
        /\ DropsShortTail(output.fallback, SignalLength(input),
                          2 * input.sampleRate, input.sampleRate)

\* C11: for the same samples and sample rate the fallback path returns what the
\* worker path returns: the same tempo, the same key, the same chord timeline
\* with the same windows, the same collapsing of duplicates and the same fields.
C11_FallbackEqualsWorker ==
    output # Null => output.fallback = output.worker

\* C12: a request runs on the samples the composite had when the request was made,
\* and no request fails because the composition was edited or cleared meanwhile,
\* with the worker and without it.
C12_RequestUsesIssuedSamples ==
    /\ analysed # Null => analysed.samples = analysed.issued
    /\ "detectChords" \notin unhandled

----------------------------------------------------------------------------
(* Properties of the layer compositor and of the export *)

\* two buffers with the same channel count, frame count and samples
SameComposite(a, b) ==
    /\ numberOfChannels(a) = numberOfChannels(b)
    /\ length(a) = length(b)
    /\ \A c \in 1..numberOfChannels(a) : \A i \in 1..length(a) : a[c][i] = b[c][i]

\* C21: the mix of [A (volume 1), B (volume 1, muted)], B no longer than A, has the
\* channel count, the frame count and the samples of the mix of [A (volume 1)].
C21_MutedLayerAddsNothing ==
    ( /\ output # Null
      /\ Len(input.layers) = 2
      /\ input.layerVolumes = <<100, 100>>
      /\ input.layerMuted = <<FALSE, TRUE>>
      /\ length(input.layers[2]) <= length(input.layers[1]) )
    => SameComposite(output.mixed, output.alone)

\* what layer k adds at channel c, frame i, as a real number
Contribution(in, k, c, i) ==
    LET layer == in.layers[k] IN
    IF in.layerMuted[k] \/ i > length(layer) THEN 0
    ELSE (layer[Min(c, numberOfChannels(layer))][i] * in.layerVolumes[k]) \div 100

\* the sum of the contributions of layers 1..n, and of their magnitudes
RECURSIVE ExactSum(_, _, _, _)
ExactSum(in, n, c, i) ==
    IF n = 0 THEN 0 ELSE ExactSum(in, n - 1, c, i) + Contribution(in, n, c, i)

RECURSIVE Magnitude(_, _, _, _)
Magnitude(in, n, c, i) ==
    IF n = 0 THEN 0
    ELSE LET x == Contribution(in, n, c, i) IN
         Magnitude(in, n - 1, c, i) + (IF x < 0 THEN -x ELSE x)

Distance(x, y) == IF x < y THEN y - x ELSE x - y

\* C22, as stated: mixing [A, B, C] and mixing [C, A, B], with the volumes and mute
\* flags moved along, give the same channel count, frame count and samples.
C22_OrderIndependent ==
    (output # Null /\ Len(input.layers) = 3)
    => SameComposite(output.mixed, output.reordered)

\* C22, amended: the two orders give the same channel count and frame count, and
\* samples that differ by no more than the roundings of the float32 additions, two
\* spacings of the float32 values at the summed magnitude of the contributions.
C22_OrderIndependentWithinRounding ==
    (output # Null /\ Len(input.layers) = 3)
    => /\ numberOfChannels(output.mixed) = numberOfChannels(output.reordered)
       /\ length(output.mixed) = length(output.reordered)
       /\ \A c \in 1..numberOfChannels(output.mixed) :
          \A i \in 1..length(output.mixed) :
              Distance(output.mixed[c][i], output.reordered[c][i])
                  <= 2 * Ulp(Magnitude(input, 3, c, i))

C22_Witness ==
    /\ output # Null /\ Len(input.layers) = 3
    /\ \A k \in 1..3 : ~input.layerMuted[k] /\ input.layerVolumes[k] > 0
    /\ output.mixed[1][1] # output.reordered[1][1]

Within(x, y, t) ==
    LET d == Add(x, Times(Num(-1), y)) IN
    Greater(t, d) /\ Greater(d, Times(Num(-1), t))

\* the float clamped to [-1,1] and scaled by 32768 when negative, 32767 otherwise
ClampedAndScaled(s) ==
    IF Greater(s, Num(1)) THEN Num(32767)
    ELSE IF Greater(Num(-1), s) THEN Num(-32768)
    ELSE IF Greater(Num(0), s) THEN Frac(s[1] * 32768, s[2])
    ELSE Frac(s[1] * 32767, s[2])

\* C25: the export of a buffer of C channels, F frames and rate R has 44 + 2*C*F
\* bytes, chunk size 36 + 2*C*F, byte rate R*C*2, block align C*2, 16 bits per
\* sample, data size 2*C*F, and then frame by frame, channel by channel, the
\* samples clamped to [-1,1] and scaled by 32768 (negative) or 32767, stored as
\* integers of -32768..32767.
C25_WavLayout ==
    output # Null =>
    LET C == numberOfChannels(output.composite)
        F == length(output.composite)
        R == input.sampleRate
        bytes == output.bytes
    IN  /\ Len(bytes) = 44 + 2 * C * F
        /\ \A k \in 1..Len(bytes) : bytes[k] \in 0..255
        /\ U32At(bytes, 4) = 36 + 2 * C * F
        /\ U16At(bytes, 22) = C
        /\ U32At(bytes, 24) = R
        /\ U32At(bytes, 28) = R * C * 2
        /\ U16At(bytes, 32) = C * 2
        /\ U16At(bytes, 34) = 16
        /\ U32At(bytes, 40) = 2 * C * F
        /\ \A i \in 1..F : \A c \in 1..C :
               LET stored == S16At(bytes, 44 + 2 * ((i - 1) * C + (c - 1))) IN
               /\ stored \in -32768..32767
               /\ Within(Num(stored),
                         ClampedAndScaled(SampleValue(output.composite[c][i])),
                         Num(1))

\* a stereo composite of two frames with a sample beyond full scale and a sample
\* whose scaled value has a fraction
C25_Witness ==
    /\ output # Null
    /\ numberOfChannels(output.composite) = 2 /\ length(output.composite) = 2
    /\ Len(output.bytes) = 52
    /\ output.composite[1][1] > One
    /\ S16At(output.bytes, 44) = 32767
    /\ \E c \in 1..2 : \E i \in 1..2 :
           ~IsInteger(ClampedAndScaled(SampleValue(output.composite[c][i])))

\* two steps of the 16-bit scale
QuantizationError == Frac(2, 32768)

\* C26, as stated: the export of any composite, decoded, gives every sample back
\* within the 16-bit quantization error, also where loud layers add up beyond
\* [-1,1].
C26_RoundTrip ==
    output # Null =>
    \A c \in 1..numberOfChannels(output.composite) :
    \A i \in 1..length(output.composite) :
        Within(Decoded(output.bytes, c, i), SampleValue(output.composite[c][i]),
               QuantizationError)

\* C26, amended: every sample of the composite that lies in [-1,1] comes back
\* within the quantization error, and a sample beyond comes back as full scale.
C26_RoundTripWithinFullScale ==
    output # Null =>
    \A c \in 1..numberOfChannels(output.composite) :
    \A i \in 1..length(output.composite) :
        LET s == output.composite[c][i] IN
        /\ (s <= One /\ s >= -One)
               => Within(Decoded(output.bytes, c, i), SampleValue(s), QuantizationError)
        /\ s > One => Decoded(output.bytes, c, i) = Frac(32767, 32768)
        /\ s < -One => Decoded(output.bytes, c, i) = Num(-1)

\* a composite of two layers with samples within and beyond full scale
C26_Witness ==
    /\ output # Null
    /\ Len(input.layers) = 2
    /\ \E c \in 1..numberOfChannels(output.composite) :
       \E i \in 1..length(output.composite) :
           /\ output.composite[c][i] < One /\ output.composite[c][i] > 0
           /\ Decoded(output.bytes, c, i) # Num(0)
    /\ \E c \in 1..numberOfChannels(output.composite) :
       \E i \in 1..length(output.composite) : output.composite[c][i] < -One

\* the nearest integer to 60 * sampleRate / (hopSize * bpm)
RoundedLag(sampleRate, hopSize, bpm) == MathRound(Frac(60 * sampleRate, hopSize * bpm))[1]

\* C29: both estimators search exactly the lags from round(60 * sampleRate /
\* (hopSize * maxBPM)) up to, not including, round(60 * sampleRate / (hopSize *
\* minBPM)).
C29_LagRangeIsRounded ==
    output # Null =>
        /\ Lags(input.sampleRate, WorkerTempoHop, 5)
               = RoundedLag(input.sampleRate, WorkerTempoHop, MaxBPM)
                     .. (RoundedLag(input.sampleRate, WorkerTempoHop, MinBPM) - 1)
        /\ Lags(input.sampleRate, AnalyzerTempoHop, 1)
               = RoundedLag(input.sampleRate, AnalyzerTempoHop, MaxBPM)
                     .. (RoundedLag(input.sampleRate, AnalyzerTempoHop, MinBPM) - 1)

\* envelope has one entry per hop of data, begun hops included, each the mean of
\* the absolute values of the samples that hop has
IsMeanOfEachHop(envelope, data, hopSize) ==
    /\ Len(envelope) = (Len(data) + hopSize - 1) \div hopSize
    /\ \A k \in 1..Len(envelope) :
           LET first == (k - 1) * hopSize + 1
               last == Min(k * hopSize, Len(data))
           IN  envelope[k] = Frac(SumAbs(data, first, last), last - first + 1)

\* C30: the energy envelope of each estimator has ceil(frameCount / hopSize)
\* entries, each the sum of the absolute samples of its hop over the number of
\* samples in that hop, the last, shorter hop too.
C30_EnvelopeIsMeanOfEachHop ==
    output # Null =>
        LET audioData == Array(Signal(input))
            data == SubSeq(audioData, 1, Min(Len(audioData), 10 * input.sampleRate))
        IN  /\ IsMeanOfEachHop(EnergyEnvelope(data, WorkerTempoHop), data,
                               WorkerTempoHop)
            /\ IsMeanOfEachHop(AudioAnalyzer_EnergyEnvelope(audioData, AnalyzerTempoHop),
                               audioData, AnalyzerTempoHop)

\* what the snapshots of a stack hold
Contents(h, stack) ==
    [k \in 1..Len(stack) |->
        [layers |-> h.arrays[stack[k].layers],
         layerVolumes |-> h.arrays[stack[k].layerVolumes],
         layerMuted |-> h.arrays[stack[k].layerMuted]]]

\* no array is reached twice: each snapshot has arrays of its own
OwnArrays(h) ==
    \A j, k \in 1..Len(Reached(h)) : j # k => Reached(h)[j] # Reached(h)[k]

\* what the application has now
Live(h) ==
    [layers |-> h.arrays[h.layers],
     layerVolumes |-> h.arrays[h.layerVolumes],
     layerMuted |-> h.arrays[h.layerMuted]]

\* C28: the snapshots on the two stacks have arrays of their own, so that no step
\* changes what a stored snapshot holds: a step that neither stores nor takes a
\* snapshot (a volume change, a mute toggle) leaves both stacks' contents as they
\* were, a new layer adds the snapshot of the layers, volumes and mute flags before
\* it to the undo snapshots, which stay as they were, and an undo moves the
\* snapshots without changing them.
C28_SnapshotsAreIsolated ==
    [][/\ OwnArrays(heap')
       /\ (Len(heap'.undoStack) = Len(heap.undoStack)
            /\ Len(heap'.redoStack) = Len(heap.redoStack))
          => /\ Contents(heap', heap'.undoStack) = Contents(heap, heap.undoStack)
             /\ Contents(heap', heap'.redoStack) = Contents(heap, heap.redoStack)
       /\ Len(heap'.undoStack) = Len(heap.undoStack) + 1
          => Contents(heap', heap'.undoStack)
                 = Append(Contents(heap, heap.undoStack), Live(heap))
       /\ (Len(heap'.undoStack) = Len(heap.undoStack) - 1
            /\ Len(heap'.redoStack) = Len(heap.redoStack) + 1)
          => /\ Contents(heap', heap'.undoStack) = Front(Contents(heap, heap.undoStack))
             /\ Contents(heap', heap'.redoStack)
                    = Append(Contents(heap, heap.redoStack), Live(heap))
             /\ Live(heap') = Last(Contents(heap, heap.undoStack))]_vars

\* both stacks hold a snapshot, and the first layer's volume and mute flag were
\* changed since: every snapshot has the old ones
C28_Witness ==
    /\ heap.undoStack # <<>> /\ heap.redoStack # <<>>
    /\ heap.arrays[heap.layerVolumes][1] = 50
    /\ heap.arrays[heap.layerMuted][1] = TRUE
    /\ \A k \in 1..Len(heap.undoStack) :
           /\ Contents(heap, heap.undoStack)[k].layerVolumes[1] = 100
           /\ Contents(heap, heap.undoStack)[k].layerMuted[1] = FALSE
    /\ \A k \in 1..Len(heap.redoStack) :
           /\ Contents(heap, heap.redoStack)[k].layerVolumes[1] = 100
           /\ Contents(heap, heap.redoStack)[k].layerMuted[1] = FALSE

\* C23: in every reachable state every layer has a volume between 0 and 1 (0 and
\* 100 percent): what a volume change stores is within that range.
C23_VolumesStayInRange ==
    \A k \in 1..Len(layers) : VolumeAt(layerVolumes, k) \in 0..100

\* C24: a volume change or a mute toggle for a row beyond the current layers is
\* refused and reported: layers, volumes, mute flags and the composite stay as
\* they are and the status line tells of the failure.
C24_StaleIndexIsRejected ==
    [][\A index \in 1..renderedLayers :
           ( /\ index > Len(layers)
             /\ \/ \E volume \in Volumes : HandleLayerVolumeChange(index, volume)
                \/ HandleLayerMuteToggle(index) )
           => /\ UNCHANGED <<layers, layerVolumes, layerMuted, loopAudioBuffer>>
              /\ statusText' # statusText]_vars

----------------------------------------------------------------------------
(* Properties of the key, of the chord timeline and of the recorder *)

\* x >= y as numbers compare: never with a NaN
AtLeast(x, y) == ~IsNaN(x) /\ ~IsNaN(y) /\ ~Greater(y, x)

\* d has the maximum energy of the chromagram, and is the lowest such index
IsDominant(chromagram, d) ==
    /\ \A pc \in 0..11 : AtLeast(chromagram[d + 1], chromagram[pc + 1])
    /\ \A pc \in 0..(d - 1) : Greater(chromagram[d + 1], chromagram[pc + 1])

IsKeyOf(chromagram, key) ==
    \E d \in 0..11 :
        /\ IsDominant(chromagram, d)
        /\ key = Notes[d + 1] \o " " \o
                 (IF Greater(chromagram[((d + 4) % 12) + 1], chromagram[((d + 3) % 12) + 1])
                  THEN "Major" ELSE "Minor")

\* C31: the key either detectKey returns names the pitch class whose energy in the
\* chromagram it built is the maximum (the lowest index on ties), and says Major
\* exactly when the energy four semitones above is strictly greater than the
\* energy three semitones above, Minor otherwise.
C31_KeyIsDominantAndThird ==
    (output # Null /\ output.of = "key") =>
        /\ IsKeyOf(calculateChromagramFast(Slice(input, 5 * input.sampleRate),
                                           input.sampleRate), output.worker)
        /\ IsKeyOf(AudioAnalyzer_calculateChromagram(input, input.sampleRate),
                   output.fallback)

\* the label the interval templates give the chromagram, built by either of the
\* worker's builders, of a window of n samples that holds no analysis frame
TemplateLabels(n, sampleRate) ==
    LET window == [length |-> n, spectrum |-> <<>>] IN
    {identifyChord(calculateChromagram(window, sampleRate)),
     identifyChord(calculateChromagramFast(window, sampleRate))}

\* C32: every label of a chord timeline is what identifyChord answers for the
\* chromagram built over the samples of the label's window: on the worker path
\* for each event of a window that was classified, on the fallback path for the
\* event of each window.
C32_LabelsAreTemplateLabels ==
    (output # Null /\ output.of = "chords") =>
        /\ (input.spectrum = <<>> /\ 2 * SignalLength(input) >= input.sampleRate) =>
               \A k \in 1..Len(output.worker) :
                   \E start \in FullEnough(SignalLength(input), input.sampleRate) :
                       /\ output.worker[k].timeInSeconds = Frac(start, input.sampleRate)
                       /\ output.worker[k].chord
                              \in TemplateLabels(Min(input.sampleRate,
                                                     SignalLength(input) - start),
                                                 input.sampleRate)
        /\ \A k \in 1..Len(output.fallback) :
               LET start == (k - 1) * 2 * input.sampleRate
                   window == [length |-> Min(2 * input.sampleRate,
                                             SignalLength(input) - start),
                              spectrum |-> WindowSpectrum(input, k)]
               IN  output.fallback[k].chord
                       = AudioAnalyzer_identifyChord(
                             AudioAnalyzer_calculateChromagram(window, input.sampleRate))

SameLengths(state) ==
    /\ Len(state.layers) = Len(state.layerVolumes)
    /\ Len(state.layers) = Len(state.layerMuted)

\* C33: in every reachable state the layers, the volumes and the mute flags are
\* sequences of the same length, and so are the three of every snapshot on the
\* undo stack and on the redo stack.
C33_SequencesHaveSameLength ==
    /\ Len(layers) = Len(layerVolumes)
    /\ Len(layers) = Len(layerMuted)
    /\ \A k \in 1..Len(undoStack) : SameLengths(undoStack[k])
    /\ \A k \in 1..Len(redoStack) : SameLengths(redoStack[k])

\* C34: whenever no handler or callback is running and there is a loop, the undo
\* button is enabled exactly when the undo stack is not empty and there is more
\* than one layer: so it is enabled when the first overdub on a new loop is done.
C34_UndoButtonFollowsHistory ==
    (Settled /\ layers # <<>>) =>
        (~undoBtnDisabled <=> (undoStack # <<>> /\ Len(layers) > 1))

\* C35: while a MediaRecorder is recording, no click on Record or Overdub starts
\* another MediaRecorder and another progress timer.
C35_OneRecordingAtATime ==
    [][mediaRecorder # "none"
          => ~(HandleRecordStart(TRUE) \/ HandleOverdubStart(TRUE))]_vars

\* SpecUnattended: Spec, where what does not wait for the user does happen: an
\* interval that reaches its duration stops the recorder, a stopped recorder
\* delivers its callback, a suspended callback goes on, the worker and the main
\* thread take their messages.  The user may do anything or nothing.
SpecUnattended ==
    /\ InitHistory /\ [][Next]_vars
    /\ WF_vars(TimerElapsed /\ UNCHANGED auxVars)
    /\ WF_vars(\E buf \in Buffers : RecordComplete(buf) /\ UNCHANGED auxVars)
    /\ WF_vars(RecordContinue /\ UNCHANGED auxVars)
    /\ WF_vars(\E buf \in Buffers : OverdubComplete(buf) /\ UNCHANGED auxVars)
    /\ WF_vars(OverdubContinue /\ UNCHANGED auxVars)
    /\ WF_vars(FileLoadContinue /\ UNCHANGED auxVars)
    /\ WF_vars(WorkerOnMessage("ok") /\ UNCHANGED auxVars)
    /\ WF_vars(MainOnMessage /\ UNCHANGED auxVars)

\* C36: an overdub recording that handleOverdub started stops by itself: from when
\* its MediaRecorder records, with no further step of the user needed, the state
\* is reached where the recording is over and isRecording is false.
C36_OverdubStopsByItself ==
    (mediaRecorder = "overdub") ~> (mediaRecorder # "overdub" /\ ~isRecording)

\* SpecDispatched: SpecAnalysis, where the worker takes every request, the main
\* thread every response and every timer fires; whether an analysis returns or
\* throws, and what the user does, is open.
SpecDispatched ==
    /\ Init /\ [][NextAnalysis]_vars
    /\ WF_vars(\E outcome \in Outcomes : WorkerOnMessage(outcome) /\ UNCHANGED auxVars)
    /\ WF_vars(MainOnMessage /\ UNCHANGED auxVars)
    /\ WF_vars(\E j \in 1..Len(timers), outcome \in Outcomes :
                   TimerFire(j, outcome) /\ UNCHANGED auxVars)

\* C37: whenever a chord request has disabled the Detect Chords button, the
\* button is enabled again later, after a result and after an error response.
C37_DetectButtonComesBack ==
    detectChordsBtnDisabled ~> ~detectChordsBtnDisabled

\* C38: while there is no loop (from the clear until a loop is recorded or loaded)
\* no chord timeline is stored and the tempo and the key show '--', whatever
\* response arrives.
C38_ClearedStaysCleared ==
    loopAudioBuffer = Null =>
        /\ ~detectedChords
        /\ tempoValue = "--" /\ keyValue = "--"

----------------------------------------------------------------------------
(***************************************************************************)
(* AudioPlayer.  A source node is named by the number of the play() call   *)
(* that created it, and so are the end callback that call was given and    *)
(* the animation frame requested for its progress.  A source node is       *)
(* "playing" from start(0), "ending" once it has reached the end of the    *)
(* buffer or was stopped (its ended event is then queued), "ended" once    *)
(* its onended handler has run.                                            *)
(***************************************************************************)

\* loadBuffer(audioBuffer)
LoadBuffer ==
    /\ player' = [player EXCEPT !.audioBuffer = TRUE]
    /\ UNCHANGED browser

\* sourceNode.stop() of stop(): a source that plays ends; on one that has ended
\* the call has no effect
SourceStopped(sources, s) ==
    IF s # 0 /\ sources[s] = "playing" THEN [sources EXCEPT ![s] = "ending"]
    ELSE sources

\* cancelAnimationFrame(this.animationFrame)
Cancelled(frame, handle) == IF handle # 0 /\ frame = handle THEN 0 ELSE frame

\* the player after stop()
AfterStop(p) == [p EXCEPT !.sourceNode = 0, !.isPlaying = FALSE, !.animationFrame = 0]

\* stop()
Stop ==
    /\ player' = AfterStop(player)
    /\ browser' = [browser EXCEPT
                      !.sources = SourceStopped(@, player.sourceNode),
                      !.frame = Cancelled(@, player.animationFrame)]

\* the number of the next source node
NextSource == Cardinality({s \in 1..MaxPlays : browser.sources[s] # "none"}) + 1

\* play(onProgress, onEnd) with a buffer loaded: stop(), a new source node with
\* its onended handler, start(0), isPlaying = true, updateProgress(), which
\* requests the first animation frame (currentTime < duration)
Play ==
    /\ player.audioBuffer
    /\ NextSource <= MaxPlays
    /\ player' = [AfterStop(player) EXCEPT
                     !.onEndCallback = NextSource,
                     !.sourceNode = NextSource,
                     !.isPlaying = TRUE,
                     !.animationFrame = NextSource]
    /\ browser' = [browser EXCEPT
                      !.sources = [SourceStopped(@, player.sourceNode)
                                       EXCEPT ![NextSource] = "playing"],
                      !.frame = NextSource]

\* the requested animation frame: updateProgress()
AnimationFrame(more) ==
    /\ browser.frame # 0
    /\ IF player.isPlaying /\ player.audioBuffer /\ more
       THEN /\ player' = [player EXCEPT !.animationFrame = player.sourceNode]
            /\ browser' = [browser EXCEPT !.frame = player.sourceNode]
       ELSE /\ player' = player
            /\ browser' = [browser EXCEPT !.frame = 0]

\* a source node reaches the end of its buffer
SourceEnds(s) ==
    /\ browser.sources[s] = "playing"
    /\ browser' = [browser EXCEPT !.sources[s] = "ending"]
    /\ UNCHANGED player

\* sourceNode.onended of source s
OnEnded(s) ==
    /\ browser.sources[s] = "ending"
    /\ player' = [player EXCEPT !.isPlaying = FALSE, !.animationFrame = 0]
    /\ browser' = [browser EXCEPT
                      !.sources[s] = "ended",
                      !.frame = Cancelled(@, player.animationFrame),
                      !.called = IF player.onEndCallback # 0
                                 THEN [source |-> s, callback |-> player.onEndCallback]
                                 ELSE @]

\* SpecPlayer: a client that loads a buffer, plays (up to MaxPlays times) and
\* stops at any moment, while sources end and animation frames run.
restOfPlayer == <<compVars, recVars, uiVars, anaVars, edits, fnVars, reqVars, heap,
                  audioContext, metronomeIsPlaying, compositeRate>>

NextPlayer ==
    \/ LoadBuffer /\ UNCHANGED restOfPlayer
    \/ Play /\ UNCHANGED restOfPlayer
    \/ Stop /\ UNCHANGED restOfPlayer
    \/ \E more \in BOOLEAN : AnimationFrame(more) /\ UNCHANGED restOfPlayer
    \/ \E s \in 1..MaxPlays : SourceEnds(s) /\ UNCHANGED restOfPlayer
    \/ \E s \in 1..MaxPlays : OnEnded(s) /\ UNCHANGED restOfPlayer

SpecPlayer == InitRequests /\ [][NextPlayer]_vars

\* C39: while a playback is on (play() has started a source, which has neither
\* ended nor been stopped), the end event of an earlier source leaves isPlaying
\* true, leaves the animation frame of the playback requested and calls no end
\* callback.
C39_EarlierSourceEndsQuietly ==
    [][\A s \in 1..MaxPlays :
           ( /\ player.isPlaying /\ player.sourceNode # s
             /\ browser.sources[s] = "ending" /\ browser'.sources[s] = "ended" )
           => /\ player'.isPlaying
              /\ browser'.frame = browser.frame
              /\ browser'.called = browser.called]_vars

----------------------------------------------------------------------------
(***************************************************************************)
(* The application's audio context.  The recorder decodes what it records  *)
(* and loads in a context of 44100 Hz (README.md, AudioRecorder), so every *)
(* layer has that rate.  A context made without options has the rate of    *)
(* the output device, which is one of DeviceRates.  A context and a buffer *)
(* are written as the tuple of their sample rate, null as the empty tuple.  *)
(***************************************************************************)
LayerRate == 44100
DeviceRates == {44100, 48000}

\* if (!this.audioContext) this.audioContext = new AudioContext(): playCountIn
\* and startMetronome
Created(rate) == IF audioContext = Null THEN <<rate>> ELSE audioContext

\* the same in mixLayers, with { sampleRate: 44100 }, once there are two layers
ContextAfterMix(ls) ==
    IF Len(ls) >= 2 /\ audioContext = Null THEN <<44100>> ELSE audioContext

\* sampleRate of what mixLayers returns: null, the one layer, or a buffer
\* created with this.audioContext.sampleRate
RateAfterMix(ls) ==
    IF Len(ls) = 0 THEN Null
    ELSE IF Len(ls) = 1 THEN <<LayerRate>>
    ELSE ContextAfterMix(ls)

\* this.loopAudioBuffer = this.mixLayers()
Remixed ==
    /\ audioContext' = ContextAfterMix(layers')
    /\ compositeRate' = RateAfterMix(layers')
    /\ UNCHANGED metronomeIsPlaying

\* playCountIn, at the start of handleRecord and handleOverdub when the count-in
\* is switched on
PlayCountIn(rate) ==
    /\ audioContext' = Created(rate)
    /\ UNCHANGED <<metronomeIsPlaying, compositeRate>>

StartMetronome(rate) ==
    /\ ~metronomeIsPlaying
    /\ audioContext' = Created(rate)
    /\ metronomeIsPlaying' = TRUE
    /\ UNCHANGED compositeRate

StopMetronome ==
    /\ metronomeIsPlaying
    /\ metronomeIsPlaying' = FALSE
    /\ UNCHANGED <<audioContext, compositeRate>>

\* SpecContext: Spec with the audio context: files are loaded, overdubs recorded
\* up to MaxContextLayers layers and undone, the loop is cleared, and the count-in
\* and the metronome are used at any settled moment.
contextVars == <<audioContext, metronomeIsPlaying, compositeRate>>
noContext == <<edits, fnVars, reqVars, heap, player, browser>>
appState == <<compVars, recVars, uiVars, anaVars>>

NextContext ==
    \/ \E rate \in DeviceRates :
           Settled /\ PlayCountIn(rate) /\ UNCHANGED <<appState, noContext>>
    \/ \E rate \in DeviceRates :
           Settled /\ StartMetronome(rate) /\ UNCHANGED <<appState, noContext>>
    \/ Settled /\ StopMetronome /\ UNCHANGED <<appState, noContext>>
    \/ /\ Settled /\ HandleFileLoad(B1) /\ compositeRate' = <<LayerRate>>
       /\ UNCHANGED <<audioContext, metronomeIsPlaying, noContext>>
    \/ FileLoadContinue /\ UNCHANGED <<contextVars, noContext>>
    \/ /\ Settled /\ Len(layers) + PendingOverdubs < MaxContextLayers
       /\ HandleOverdubStart(TRUE) /\ UNCHANGED <<contextVars, noContext>>
    \/ Settled /\ HandleRecordStop /\ UNCHANGED <<contextVars, noContext>>
    \/ OverdubComplete(B2) /\ Remixed /\ UNCHANGED noContext
    \/ OverdubContinue /\ UNCHANGED <<contextVars, noContext>>
    \/ /\ Settled /\ HandleUndo /\ UNCHANGED noContext
       /\ IF Len(undoStack) = 0 THEN UNCHANGED contextVars ELSE Remixed
    \/ /\ Settled /\ HandleClear /\ compositeRate' = Null
       /\ metronomeIsPlaying' = FALSE   \* stopMetronome
       /\ UNCHANGED <<audioContext, noContext>>
    \/ WorkerOnMessage("ok") /\ UNCHANGED <<contextVars, noContext>>
    \/ MainOnMessage /\ UNCHANGED <<contextVars, noContext>>

InitContext == InitRequests /\ analysisWorker

SpecContext == InitContext /\ [][NextContext]_vars

\* C40: the composite of two or more layers has the sample rate of the layers,
\* 44100, whichever of count-in, metronome and mixLayers made the audio context.
C40_CompositeHasLayerRate ==
    Len(layers) >= 2 => compositeRate = <<LayerRate>>

====
